---- MODULE Spec2Model ----
(***************************************************************************)
(* Model of the time-offset estimation and window-tuning engine of ptp-dal *)
(* (src/ptp/pktselection.py, src/ptp/ls.py, src/ptp/window.py) and of the  *)
(* capture loop that records the traces (src/ptp/serial.py).               *)
(*                                                                         *)
(* Numbers: timestamps, offsets and drifts are integers (nanoseconds).     *)
(* Every value the code computes by a division (a mean, a median, a        *)
(* halved difference, an LS fit) is an exact rational <<num, den>> in      *)
(* lowest terms with den > 0, so that "the same estimate" is equality and  *)
(* no rounding of the float arithmetic is modelled.                        *)
(*                                                                         *)
(* Indices are the code's: the trace is a function on 0 .. L-1.            *)
(***************************************************************************)
EXTENDS Integers, Sequences, FiniteSets, TLC

VARIABLES
    data,      \* the shared sequence of observation records: 0..L-1 -> record
    pkts,      \* the PktSelection instance (its attributes)
    last,      \* the call that produced this state, its arguments and outcome
    calls,     \* number of calls made so far (bounded)
    est_op,    \* Optimizer.est_op, the class attribute shared by all instances
    opt,       \* the Optimizer instance: its attributes and where its call stands
    te,        \* max|TE| that the trace yields for each window length
    cfg_file,  \* the window configuration file: whether it exists, its contents
    ser        \* the Serial capture: its attributes, its file, where run() stands

vars == <<data, pkts, last, calls, est_op, opt, te, cfg_file, ser>>

Null == "None"

\* the Serial instance before run(): Serial.__init__, nothing written yet
Ser0 ==
    [pc         |-> "start",   \* where run() stands
     hs         |-> <<>>,      \* the running catch() handlers, innermost last
     file       |-> <<>>,      \* what has been appended to the capture file
     buf        |-> <<>>,      \* what save() wrote and has not flushed yet
     idx        |-> 0,
     n_samples  |-> 1,
     en_capture |-> TRUE,
     signals    |-> 0]         \* history: the SIGINTs delivered

(***************************************************************************)
(* Bounds of the model.                                                    *)
(***************************************************************************)
MaxL     == 3   \* longest trace of the enumerated family
MaxCalls == 1   \* calls per behaviour on one trace
Period   == 10  \* spacing of the master timestamps t1 of the traces
ModeL    == 13  \* length of the traces of the mode-tuning family

(***************************************************************************)
(* Exact rational arithmetic.                                              *)
(***************************************************************************)
Abs(i) == IF i < 0 THEN -i ELSE i

RECURSIVE Gcd(_, _)
Gcd(a, b) == IF b = 0 THEN a ELSE Gcd(b, a % b)

Rat(n, d) ==
    LET s == IF d < 0 THEN -1 ELSE 1
        g == Gcd(Abs(n), Abs(d))
    IN  <<(s * n) \div g, (s * d) \div g>>

RInt(i)    == <<i, 1>>
RAdd(a, b) == Rat(a[1] * b[2] + b[1] * a[2], a[2] * b[2])
RSub(a, b) == Rat(a[1] * b[2] - b[1] * a[2], a[2] * b[2])
RMul(a, b) == Rat(a[1] * b[1], a[2] * b[2])
RDiv(a, b) == Rat(a[1] * b[2], a[2] * b[1])
RLess(a, b) == a[1] * b[2] < b[1] * a[2]
RAbs(a)    == <<Abs(a[1]), a[2]>>

(***************************************************************************)
(* Vectors are functions on 0 .. n-1.                                      *)
(***************************************************************************)
Size(v) == Cardinality(DOMAIN v)

RECURSIVE SumTo(_, _)
SumTo(v, k) == IF k < 0 THEN 0 ELSE v[k] + SumTo(v, k - 1)

Sum(v) == SumTo(v, Size(v) - 1)

\* v[i_s:i_e] of Python: the bounds are clamped to the vector
Slice(v, i_s, i_e) ==
    LET hi == IF i_e > Size(v) THEN Size(v) ELSE i_e
        n  == IF hi > i_s THEN hi - i_s ELSE 0
    IN  [k \in 0 .. n - 1 |-> v[i_s + k]]

\* numpy.cumsum
CumSum(v) == [k \in DOMAIN v |-> SumTo(v, k)]

VMin(v) == CHOOSE m \in {v[k] : k \in DOMAIN v} : \A k \in DOMAIN v : m <= v[k]
VMax(v) == CHOOSE m \in {v[k] : k \in DOMAIN v} : \A k \in DOMAIN v : m >= v[k]

\* the k-th smallest element (k from 0) of a vector, counting repetitions
KthSmallest(v, k) ==
    CHOOSE m \in {v[i] : i \in DOMAIN v} :
        /\ Cardinality({i \in DOMAIN v : v[i] < m}) <= k
        /\ Cardinality({i \in DOMAIN v : v[i] <= m}) > k

\* numpy.any: some element is non-zero
NpAny(v) == \E k \in DOMAIN v : v[k] # 0

(***************************************************************************)
(* Program constants.                                                      *)
(***************************************************************************)
SAMPLE_MODE_BIN_0 == 10      \* starting bin width of the mode strategies
CntThreshold      == 3       \* cnt_threshold of _sample_mode/_sample_mode_vec
StallPatience     == 10      \* stall_patience of _sample_mode
BinStep           == 10      \* increment of a bin width
NTuning           == 100     \* n_tuning of _sample_mode_vec
DefaultBatchSize  == 4096    \* batch_size of PktSelection.process

(***************************************************************************)
(* Records.  A record is a function from its keys to values; a key is      *)
(* present when it is in the record's DOMAIN.                              *)
(***************************************************************************)
Has(r, k) == k \in DOMAIN r

\* r[k] = v of Python
Put(r, k, v) == [f \in (DOMAIN r) \cup {k} |-> IF f = k THEN v ELSE r[f]]

\* r.pop(k, None) of Python
Pop(r, k) == [f \in (DOMAIN r) \ {k} |-> r[f]]

NData(d) == Cardinality(DOMAIN d)

\* data[j][k] = v
Write(d, j, k, v) == [d EXCEPT ![j] = Put(d[j], k, v)]

\* strategy.replace('-', '_'), on the strategy names process() can be given
Key(strategy) ==
    CASE strategy = "avg-recursive" -> "avg_recursive"
      [] strategy = "avg-normal"    -> "avg_normal"
      [] OTHER                      -> strategy

PktsKey(strategy) == "x_pkts_" \o Key(strategy)

(***************************************************************************)
(* PktSelection: construction and reset.                                   *)
(***************************************************************************)
Zeros(n) == [k \in 0 .. n - 1 |-> 0]

\* PktSelection.__init__
PktSelectionInit(N) ==
    [N                  |-> N,
     i_batch            |-> 0,
     movavg_accum       |-> 0,
     movavg_buffer      |-> Zeros(2 * N),
     movavg_i           |-> N,
     ewma_alpha         |-> Rat(1, N),
     ewma_beta          |-> RSub(RInt(1), Rat(1, N)),
     ewma_last_avg      |-> RInt(0),
     ewma_n             |-> 0,
     sample_mode_bin    |-> SAMPLE_MODE_BIN_0,
     sample_mode_bin_fw |-> SAMPLE_MODE_BIN_0,
     sample_mode_bin_bw |-> SAMPLE_MODE_BIN_0,
     mode_stall_cnt     |-> 0]

\* a set_window_len that keeps the EWMA sample count
SetWindowLenKeepsCount(self, N) ==
    [PktSelectionInit(N) EXCEPT !.ewma_n = self.ewma_n]

\* PktSelection.set_window_len
SetWindowLenOp(self, N) ==
    [self EXCEPT
       !.N                  = N,
       !.i_batch            = 0,
       !.movavg_accum       = 0,
       !.movavg_buffer      = Zeros(2 * N),
       !.movavg_i           = N,
       !.ewma_alpha         = Rat(1, N),
       !.ewma_beta          = RSub(RInt(1), Rat(1, N)),
       !.ewma_last_avg      = RInt(0),
       !.ewma_n             = 0,
       !.sample_mode_bin    = SAMPLE_MODE_BIN_0,
       !.sample_mode_bin_fw = SAMPLE_MODE_BIN_0,
       !.sample_mode_bin_bw = SAMPLE_MODE_BIN_0,
       !.mode_stall_cnt     = 0]

(***************************************************************************)
(* The selection operators on one window (a vector) and on a matrix of     *)
(* windows (a function from the row index to the row's vector).            *)
(***************************************************************************)
\* numpy.median of a vector
Median(v) ==
    LET n == Size(v)
    IN  IF n % 2 = 1
        THEN RInt(KthSmallest(v, (n - 1) \div 2))
        ELSE Rat(KthSmallest(v, (n \div 2) - 1) + KthSmallest(v, n \div 2), 2)

Half(a) == RDiv(a, RInt(2))

\* _sample_avg_normal
SampleAvgNormal(x_obs) == Rat(Sum(x_obs), Size(x_obs))

\* _sample_avg_normal_vec
SampleAvgNormalVec(x_obs) ==
    [i \in DOMAIN x_obs |-> Rat(SumTo(x_obs[i], Size(x_obs[i]) - 1), Size(x_obs[i]))]

\* _sample_median
SampleMedian(t2_minus_t1_w, t4_minus_t3_w) ==
    Half(RSub(Median(t2_minus_t1_w), Median(t4_minus_t3_w)))

\* _sample_median_vec
SampleMedianVec(t2_minus_t1_mtx, t4_minus_t3_mtx) ==
    [i \in DOMAIN t2_minus_t1_mtx |->
        Half(RSub(Median(t2_minus_t1_mtx[i]), Median(t4_minus_t3_mtx[i])))]

\* _eapf
Eapf(t2_minus_t1_w, t4_minus_t3_w) ==
    Rat(VMin(t2_minus_t1_w) - VMin(t4_minus_t3_w), 2)

\* _eapf_vec
EapfVec(t2_minus_t1_mtx, t4_minus_t3_mtx) ==
    [i \in DOMAIN t2_minus_t1_mtx |->
        Rat(VMin(t2_minus_t1_mtx[i]) - VMin(t4_minus_t3_mtx[i]), 2)]

\* _sample_maximum
SampleMaximum(t2_minus_t1_w, t4_minus_t3_w) ==
    Rat(VMax(t2_minus_t1_w) - VMax(t4_minus_t3_w), 2)

\* _sample_maximum_vec
SampleMaximumVec(t2_minus_t1_mtx, t4_minus_t3_mtx) ==
    [i \in DOMAIN t2_minus_t1_mtx |->
        Rat(VMax(t2_minus_t1_mtx[i]) - VMax(t4_minus_t3_mtx[i]), 2)]

\* numpy.round(v / bin_width): to the nearest integer, a half to the even one
RoundDiv(v, bin_width) ==
    LET q == v \div bin_width
        r == v % bin_width
    IN  IF 2 * r < bin_width THEN q
        ELSE IF 2 * r > bin_width THEN q + 1
        ELSE IF q % 2 = 0 THEN q ELSE q + 1

Quantize(w, bin_width) == [k \in DOMAIN w |-> RoundDiv(w[k], bin_width)]

Count(q, m) == Cardinality({k \in DOMAIN q : q[k] = m})

\* the occurrence count of the most frequent value
ModeCnt(q) ==
    CHOOSE c \in {Count(q, q[k]) : k \in DOMAIN q} :
        \A k \in DOMAIN q : Count(q, q[k]) <= c

\* the most frequent value, the smallest one of several (numpy.unique is sorted
\* and argmax takes the first maximum; scipy.stats.mode returns the smallest)
ModeVal(q) ==
    CHOOSE m \in {q[k] : k \in DOMAIN q} :
        /\ Count(q, m) = ModeCnt(q)
        /\ \A k \in DOMAIN q : Count(q, q[k]) = ModeCnt(q) => m <= q[k]

\* mode * bin_width + half_bin_width
Descale(m, bin_width) == RAdd(RInt(m * bin_width), Rat(bin_width, 2))

\* _sample_mode: the estimate and the instance with its stall counter and bin
SampleMode(self, t2_minus_t1_w, t4_minus_t3_w) ==
    LET bin_width     == self.sample_mode_bin
        t2_minus_t1_q == Quantize(t2_minus_t1_w, bin_width)
        t4_minus_t3_q == Quantize(t4_minus_t3_w, bin_width)
        mode_cnt_fw   == ModeCnt(t2_minus_t1_q)
        mode_cnt_bw   == ModeCnt(t4_minus_t3_q)
        t2_minus_t1   == Descale(ModeVal(t2_minus_t1_q), bin_width)
        t4_minus_t3   == Descale(ModeVal(t4_minus_t3_q), bin_width)
        stall         == IF mode_cnt_fw < CntThreshold /\ mode_cnt_bw < CntThreshold
                         THEN self.mode_stall_cnt + 1
                         ELSE 0
        widen         == stall > StallPatience
    IN  [x_est |-> Half(RSub(t2_minus_t1, t4_minus_t3)),
         self  |-> [self EXCEPT
                      !.sample_mode_bin = IF widen THEN @ + BinStep ELSE @,
                      !.mode_stall_cnt  = IF widen THEN 0 ELSE stall]]


RECURSIVE RPow(_, _)
RPow(a, n) == IF n = 0 THEN RInt(1) ELSE RMul(a, RPow(a, n - 1))

\* a moving average whose tail pointer lags the head by the whole buffer
SampleAvgRecursiveLongTail(self, x_obs) ==
    LET i_head == self.movavg_i
        buffer == [self.movavg_buffer EXCEPT ![i_head] = x_obs]
        accum  == (self.movavg_accum + x_obs) - self.movavg_buffer[i_head]
    IN  [x_est |-> Rat(accum, self.N),
         self  |-> [self EXCEPT
                      !.movavg_buffer = buffer,
                      !.movavg_accum  = accum,
                      !.movavg_i      = (self.movavg_i + 1) % (2 * self.N)]]

\* a moving average whose tail pointer lags the head by N - 1 slots
SampleAvgRecursiveShortTail(self, x_obs) ==
    LET i_head == self.movavg_i
        i_tail == ((i_head - self.N) + 1) % (2 * self.N)
        buffer == [self.movavg_buffer EXCEPT ![i_head] = x_obs]
        accum  == (self.movavg_accum + x_obs) - buffer[i_tail]
    IN  [x_est |-> Rat(accum, self.N),
         self  |-> [self EXCEPT
                      !.movavg_buffer = buffer,
                      !.movavg_accum  = accum,
                      !.movavg_i      = (self.movavg_i + 1) % (2 * self.N)]]

\* _sample_avg_recursive: the new average and the instance
SampleAvgRecursive(self, x_obs) ==
    LET i_head == self.movavg_i
        i_tail == (i_head - self.N) % (2 * self.N)
        buffer == [self.movavg_buffer EXCEPT ![i_head] = x_obs]
        accum  == (self.movavg_accum + x_obs) - buffer[i_tail]
    IN  [x_est |-> Rat(accum, self.N),
         self  |-> [self EXCEPT
                      !.movavg_buffer = buffer,
                      !.movavg_accum  = accum,
                      !.movavg_i      = (self.movavg_i + 1) % (2 * self.N)]]

\* an EWMA without the bias correction
SampleAvgEwmaUncorrected(self, x_obs) ==
    LET new_avg   == RAdd(RMul(self.ewma_beta, self.ewma_last_avg),
                          RMul(self.ewma_alpha, RInt(x_obs)))
    IN  [x_est |-> new_avg,
         self  |-> [self EXCEPT !.ewma_last_avg = new_avg,
                                !.ewma_n = self.ewma_n + 1]]

\* _sample_avg_ewma: the bias-corrected average and the instance
SampleAvgEwma(self, x_obs) ==
    LET new_avg   == RAdd(RMul(self.ewma_beta, self.ewma_last_avg),
                          RMul(self.ewma_alpha, RInt(x_obs)))
        n         == self.ewma_n + 1
        bias_corr == RDiv(RInt(1), RSub(RInt(1), RPow(self.ewma_beta, n)))
    IN  [x_est |-> RMul(new_avg, bias_corr),
         self  |-> [self EXCEPT !.ewma_last_avg = new_avg, !.ewma_n = n]]

(***************************************************************************)
(* _sample_mode_vec.  The tuning loop of the first batch widens a bin      *)
(* while more than int(0.1*n_tuning) of the tuning rows have a winning-bin *)
(* count below the threshold.  Once a bin is wider than twice the largest  *)
(* magnitude every value quantizes to 0 for this and every wider bin, so a *)
(* stream that is still not done then never will be: the loop does not     *)
(* terminate ("hang").                                                     *)
(***************************************************************************)
TuneLimit == NTuning \div 10

Rows(mtx) == Cardinality(DOMAIN mtx)

\* mtx[:n_tuning, :]
TopRows(mtx, n) == [i \in {r \in DOMAIN mtx : r < n} |-> mtx[i]]

MaxMag(mtx) ==
    LET S == {Abs(mtx[i][k]) : i \in DOMAIN mtx, k \in DOMAIN mtx[CHOOSE r \in DOMAIN mtx : TRUE]}
    IN  IF S = {} THEN 0 ELSE CHOOSE m \in S : \A x \in S : x <= m

\* (mode_cnt < cnt_threshold).sum()
CntBelow(mtx, bin_width) ==
    Cardinality({i \in DOMAIN mtx : ModeCnt(Quantize(mtx[i], bin_width)) < CntThreshold})

RECURSIVE TuneBins(_, _, _, _)
TuneBins(fw, bw, bin_width_fw, bin_width_bw) ==
    LET more_fw == CntBelow(fw, bin_width_fw) > TuneLimit
        more_bw == CntBelow(bw, bin_width_bw) > TuneLimit
    IN  IF ~more_fw /\ ~more_bw
        THEN [err |-> "none", fw |-> bin_width_fw, bw |-> bin_width_bw]
        ELSE IF \/ more_fw /\ bin_width_fw > 2 * MaxMag(fw)
                \/ more_bw /\ bin_width_bw > 2 * MaxMag(bw)
        THEN [err |-> "hang", fw |-> bin_width_fw, bw |-> bin_width_bw]
        ELSE TuneBins(fw, bw,
                      IF more_fw THEN bin_width_fw + BinStep ELSE bin_width_fw,
                      IF more_bw THEN bin_width_bw + BinStep ELSE bin_width_bw)

\* _sample_mode_vec: [err, x_est (one estimate per row), self]
SampleModeVec(self, t2_minus_t1_mtx, t4_minus_t3_mtx) ==
    LET tuned == IF self.i_batch = 0
                 THEN TuneBins(TopRows(t2_minus_t1_mtx, NTuning),
                               TopRows(t4_minus_t3_mtx, NTuning),
                               self.sample_mode_bin_fw, self.sample_mode_bin_bw)
                 ELSE [err |-> "none", fw |-> self.sample_mode_bin_fw,
                       bw |-> self.sample_mode_bin_bw]
        self1 == [self EXCEPT !.sample_mode_bin_fw = tuned.fw,
                              !.sample_mode_bin_bw = tuned.bw]
    IN  IF tuned.err # "none"
        THEN [err |-> tuned.err, x_est |-> <<>>, self |-> self]
        ELSE [err   |-> "none",
              x_est |-> [i \in DOMAIN t2_minus_t1_mtx |->
                           Half(RSub(
                             Descale(ModeVal(Quantize(t2_minus_t1_mtx[i], tuned.fw)), tuned.fw),
                             Descale(ModeVal(Quantize(t4_minus_t3_mtx[i], tuned.bw)), tuned.bw)))],
              self  |-> self1]

(***************************************************************************)
(* _window (shift = 1, the only shift the callers use): the matrix of the  *)
(* v.size - N + 1 overlapping windows of v.  The shape is invalid when N   *)
(* exceeds v.size + 1.                                                     *)
(***************************************************************************)
WindowOk(v, N) == Size(v) - N + 1 >= 0

Window(v, N) ==
    [i \in 0 .. (Size(v) - N) |-> [k \in 0 .. N - 1 |-> v[i + k]]]

\* the vectors process() and its helpers read from the records
XObs(d)       == [i \in DOMAIN d |-> d[i]["x_est"]]
T2MinusT1(d)  == [i \in DOMAIN d |-> d[i]["t2"] - d[i]["t1"]]
T4MinusT3(d)  == [i \in DOMAIN d |-> d[i]["t4"] - d[i]["t3"]]

\* drift_est of process(): zeros, or the records' drift where populated
DriftEst(d, drift_comp) ==
    [i \in DOMAIN d |-> IF drift_comp /\ Has(d[i], "drift") THEN d[i]["drift"] ELSE 0]

VSub(a, b) == [k \in DOMAIN a |-> a[k] - b[k]]
VAdd(a, b) == [k \in DOMAIN a |-> a[k] + b[k]]
\* the drift of the window's first record, where its last one is re-added
VFirst(v)  == v[0]
VLast(v)   == v[Size(v) - 1]

WindowStrategies == {"avg-normal", "median", "min", "max", "mode"}
SampleStrategies == {"avg-recursive", "ewma"}

(***************************************************************************)
(* The three processing loops.  Each returns                               *)
(*   [err, data, self]                                                     *)
(* err is "none" on a normal return and otherwise names the exception      *)
(* raised ("hang": the call does not return); data and self are the        *)
(* records and the instance as the call leaves them, the writes made       *)
(* before an exception included.                                           *)
(***************************************************************************)
Outcome(err, d, self) == [err |-> err, data |-> d, self |-> self]

\* _sample_by_sample, iterations i .. n_data-1
RECURSIVE SampleLoop(_, _, _, _, _, _, _)
SampleLoop(i, d, self, strategy, drift_comp, drift_est, drift_accum0) ==
    IF i >= NData(d) THEN Outcome("none", d, self)
    ELSE
      LET drift_accum == IF drift_comp THEN drift_accum0 + drift_est[i]
                         ELSE drift_accum0
          x_obs       == XObs(d)
      IN  IF strategy \notin SampleStrategies
          THEN Outcome("ValueError", d, self)
          ELSE
            LET r == IF strategy = "avg-recursive"
                     THEN SampleAvgRecursive(self, x_obs[i] - drift_accum)
                     ELSE SampleAvgEwma(self, x_obs[i] - drift_accum)
            IN  SampleLoop(i + 1,
                           Write(d, i, PktsKey(strategy),
                                 RAdd(r.x_est, RInt(drift_accum))),
                           r.self, strategy, drift_comp, drift_est, drift_accum)

SampleBySample(self, d, strategy, drift_comp, drift_est) ==
    SampleLoop(0, d, self, strategy, drift_comp, drift_est, 0)

\* _window_by_window, iterations i .. len(data) - N
RECURSIVE WindowLoop(_, _, _, _, _, _)
WindowLoop(i, d, self, strategy, drift_comp, drift_est) ==
    IF i > NData(d) - self.N THEN Outcome("none", d, self)
    ELSE
      LET i_s           == i
          i_e           == i + self.N
          x_obs_w       == Slice(XObs(d), i_s, i_e)
          drift_w       == CumSum(Slice(drift_est, i_s, i_e))
          t2_minus_t1_0 == Slice(T2MinusT1(d), i_s, i_e)
          t4_minus_t3_0 == Slice(T4MinusT3(d), i_s, i_e)
          t2_minus_t1_w == IF drift_comp THEN VSub(t2_minus_t1_0, drift_w)
                           ELSE t2_minus_t1_0
          t4_minus_t3_w == IF drift_comp THEN VAdd(t4_minus_t3_0, drift_w)
                           ELSE t4_minus_t3_0
          known         == strategy \in WindowStrategies
          r == CASE strategy = "avg-normal" ->
                      [x_est |-> SampleAvgNormal(IF drift_comp
                                                 THEN VSub(x_obs_w, drift_w)
                                                 ELSE x_obs_w),
                       self  |-> self]
                 [] strategy = "median" ->
                      [x_est |-> SampleMedian(t2_minus_t1_w, t4_minus_t3_w),
                       self  |-> self]
                 [] strategy = "min" ->
                      [x_est |-> Eapf(t2_minus_t1_w, t4_minus_t3_w), self |-> self]
                 [] strategy = "max" ->
                      [x_est |-> SampleMaximum(t2_minus_t1_w, t4_minus_t3_w),
                       self  |-> self]
                 [] OTHER ->
                      SampleMode(self, t2_minus_t1_w, t4_minus_t3_w)
          x_est == IF drift_comp THEN RAdd(r.x_est, RInt(VLast(drift_w)))
                   ELSE r.x_est
      IN  IF ~known
          THEN Outcome("ValueError", d, self)
          ELSE WindowLoop(i + 1, Write(d, i_e - 1, PktsKey(strategy), x_est),
                          r.self, strategy, drift_comp, drift_est)

WindowByWindow(self, d, strategy, drift_comp, drift_est) ==
    WindowLoop(0, d, self, strategy, drift_comp, drift_est)

MSub(a, b) == [i \in DOMAIN a |-> VSub(a[i], b[i])]
MAdd(a, b) == [i \in DOMAIN a |-> VAdd(a[i], b[i])]
MAny(a)    == \E i \in DOMAIN a : NpAny(a[i])

\* _vectorized: [err, x_est (one estimate per row), self]
Vectorized(self, strategy, drift_comp, drift_est, x_obs, t2_minus_t1, t4_minus_t3) ==
    LET drift_cum_mtx == [i \in DOMAIN drift_est |-> CumSum(drift_est[i])]
        AddDrift(x)   == IF drift_comp
                         THEN [i \in DOMAIN x |->
                                 RAdd(x[i], RInt(VLast(drift_cum_mtx[i])))]
                         ELSE x
        fw            == IF drift_comp THEN MSub(t2_minus_t1, drift_cum_mtx)
                         ELSE t2_minus_t1
        bw            == IF drift_comp THEN MAdd(t4_minus_t3, drift_cum_mtx)
                         ELSE t4_minus_t3
    IN  IF strategy = "avg-normal"
        THEN IF ~MAny(x_obs)
             THEN [err |-> "AssertionError", x_est |-> <<>>, self |-> self]
             ELSE [err   |-> "none",
                   x_est |-> AddDrift(SampleAvgNormalVec(
                               IF drift_comp THEN MSub(x_obs, drift_cum_mtx)
                               ELSE x_obs)),
                   self  |-> self]
        ELSE IF ~MAny(t2_minus_t1) \/ ~MAny(t4_minus_t3)
        THEN [err |-> "AssertionError", x_est |-> <<>>, self |-> self]
        ELSE IF strategy = "median"
        THEN [err |-> "none", x_est |-> AddDrift(SampleMedianVec(fw, bw)),
              self |-> self]
        ELSE IF strategy = "min"
        THEN [err |-> "none", x_est |-> AddDrift(EapfVec(fw, bw)), self |-> self]
        ELSE IF strategy = "max"
        THEN [err |-> "none", x_est |-> AddDrift(SampleMaximumVec(fw, bw)),
              self |-> self]
        ELSE IF strategy = "mode"
        THEN LET m == SampleModeVec(self, fw, bw)
             IN  IF m.err # "none" THEN m
                 ELSE [err |-> "none", x_est |-> AddDrift(m.x_est), self |-> m.self]
        ELSE [err |-> "ValueError", x_est |-> <<>>, self |-> self]

\* the writes that end one batch of _matrix_by_matrix: rows i .. len(x_est)-1
\* a batch saved at each window's first index
RECURSIVE SaveBatchAtFirst(_, _, _, _, _, _)
SaveBatchAtFirst(i, d, x_est, i_s, N, key) ==
    IF i >= Size(x_est) THEN d
    ELSE SaveBatchAtFirst(i + 1, Write(d, i_s + i, key, x_est[i]),
                          x_est, i_s, N, key)

RECURSIVE SaveBatch(_, _, _, _, _, _)
SaveBatch(i, d, x_est, i_s, N, key) ==
    IF i >= Size(x_est) THEN d
    ELSE LET first_idx_in_window == i_s + i
             last_idx_in_window  == first_idx_in_window + N - 1
         IN  SaveBatch(i + 1, Write(d, last_idx_in_window, key, x_est[i]),
                       x_est, i_s, N, key)

\* _matrix_by_matrix, the batches that start at window i_w_s and after
RECURSIVE BatchLoop(_, _, _, _, _, _, _, _)
BatchLoop(i_w_s, d, self, strategy, drift_comp, drift_est, n_windows, batch_size) ==
    IF ~(IF batch_size > 0 THEN i_w_s < n_windows ELSE i_w_s > n_windows)
    THEN Outcome("none", d, self)
    ELSE
      LET N       == self.N
          i_w_e   == i_w_s + batch_size
          self1   == [self EXCEPT !.i_batch = IF i_w_s = 0 THEN 0
                                         ELSE i_w_s \div batch_size]
          i_s     == i_w_s
          i_e     == i_s + (batch_size - 1) + N
          drift_v == Slice(drift_est, i_s, i_e)
          x_obs   == Slice(XObs(d), i_s, i_e)
          fw      == Slice(T2MinusT1(d), i_s, i_e)
          bw      == Slice(T4MinusT3(d), i_s, i_e)
      IN  IF ~WindowOk(drift_v, N)
          THEN Outcome("ValueError", d, self1)
          ELSE
            LET v == Vectorized(self1, strategy, drift_comp, Window(drift_v, N),
                                Window(x_obs, N), Window(fw, N), Window(bw, N))
            IN  IF v.err # "none" THEN Outcome(v.err, d, v.self)
                ELSE IF ~(Size(v.x_est) = batch_size \/ i_w_e > n_windows)
                THEN Outcome("AssertionError", d, v.self)
                ELSE BatchLoop(i_w_s + batch_size,
                               SaveBatch(0, d, v.x_est, i_s, N, PktsKey(strategy)),
                               v.self, strategy, drift_comp, drift_est,
                               n_windows, batch_size)

\* _matrix_by_matrix
MatrixByMatrix(self, d, strategy, drift_comp, drift_est, batch, batch_size0) ==
    LET win_overlap == self.N - 1
        n_windows   == NData(d) - win_overlap
        batch_size  == IF batch THEN batch_size0 ELSE n_windows
    IN  IF batch_size = 0
        THEN Outcome("ValueError", d, self)    \* range() with a step of zero
        ELSE BatchLoop(0, d, self, strategy, drift_comp, drift_est,
                       n_windows, batch_size)

\* PktSelection.process
Process(self, d, strategy, drift_comp, vectorize, batch, batch_size) ==
    LET drift_est == DriftEst(d, drift_comp)
    IN  IF drift_comp /\ ~NpAny(drift_est)
        THEN Outcome("AssertionError", d, self)
        ELSE IF strategy \in SampleStrategies
        THEN SampleBySample(self, d, strategy, drift_comp, drift_est)
        ELSE IF vectorize
        THEN MatrixByMatrix(self, d, strategy, drift_comp, drift_est, batch,
                            batch_size)
        ELSE WindowByWindow(self, d, strategy, drift_comp, drift_est)

(***************************************************************************)
(* Ls: the least-squares estimator.  T_ns is Inf until it is given or      *)
(* learned; Inf and NaN are the floats numpy computes without raising.     *)
(***************************************************************************)
Inf == <<1, 0>>
NaN == <<0, 0>>

\* Ls.__init__
LsInit(N, T_ns) == [N |-> N, T_ns |-> T_ns]

T1(d) == [i \in DOMAIN d |-> d[i]["t1"]]
T2(d) == [i \in DOMAIN d |-> d[i]["t2"]]

\* float(np.mean(np.diff(t1)))
LearnPeriod(t1) ==
    IF Size(t1) < 2 THEN NaN ELSE Rat(t1[Size(t1) - 1] - t1[0], Size(t1) - 1)

\* the rate per sample, without the division by T_ns
RatePerSample(y_times_T_ns, T_ns) == y_times_T_ns

\* Y_times_T_ns / self.T_ns
RateOf(y_times_T_ns, T_ns) ==
    IF T_ns = NaN THEN NaN
    ELSE IF T_ns[1] = 0
    THEN (IF y_times_T_ns[1] = 0 THEN NaN ELSE Inf)
    ELSE RDiv(y_times_T_ns, T_ns)

\* sum of k * x[k], np.dot(np.arange(N), X_obs)
RECURSIVE DotIdxTo(_, _)
DotIdxTo(v, k) == IF k < 0 THEN 0 ELSE k * v[k] + DotIdxTo(v, k - 1)

\* Theta = P Q for one window of the "eff" implementation: <<Xf, Y_times_T_ns>>
LsEffWindow(x_obs_w, N) ==
    LET Q1 == Sum(x_obs_w)
        Q2 == DotIdxTo(x_obs_w, N - 1)
        c  == Rat(2, N * (N + 1))
        X0 == RMul(c, RInt((2 * N - 1) * Q1 - 3 * Q2))
        YT == RMul(c, RAdd(RInt(-3 * Q1), RMul(Rat(6, N - 1), RInt(Q2))))
    IN  <<RAdd(X0, RMul(YT, RInt(N - 1))), YT>>

RECURSIVE SumSqTo(_, _)
SumSqTo(v, k) == IF k < 0 THEN 0 ELSE v[k] * v[k] + SumSqTo(v, k - 1)

RECURSIVE DotTo(_, _, _)
DotTo(a, b, k) == IF k < 0 THEN 0 ELSE a[k] * b[k] + DotTo(a, b, k - 1)

\* np.linalg.lstsq(H, x_obs_w) with H = [1 tau], then x_f: <<x_f, y>>.  With a
\* constant time axis H has rank one and the minimum-norm solution is the mean
\* with a zero rate.
LsFitWindow(x_obs_w, t_w, N) ==
    LET tau  == [k \in DOMAIN t_w |-> t_w[k] - t_w[0]]
        St   == Sum(tau)
        Sx   == Sum(x_obs_w)
        Stt  == SumSqTo(tau, N - 1)
        Stx  == DotTo(tau, x_obs_w, N - 1)
        den  == N * Stt - St * St
        y    == IF den = 0 THEN RInt(0) ELSE Rat(N * Stx - St * Sx, den)
        x0   == RDiv(RSub(RInt(Sx), RMul(y, RInt(St))), RInt(N))
        Tobs == t_w[N - 1] - t_w[0]
    IN  <<RAdd(x0, RMul(y, RInt(Tobs))), y>>

\* the writes of the vectorized "eff" implementation, results i_x .. n_windows-1
RECURSIVE LsEffSave(_, _, _, _, _)
LsEffSave(i_x, d, N, T_ns, impl) ==
    IF i_x > NData(d) - N THEN d
    ELSE LET th    == LsEffWindow(Slice(XObs(d), i_x, i_x + N), N)
             i_res == (N - 1) + i_x
         IN  LsEffSave(i_x + 1,
                       Write(Write(d, i_res, "x_ls_" \o impl, th[1]),
                             i_res, "y_ls_" \o impl, RateOf(th[2], T_ns)),
                       N, T_ns, impl)

\* the sliding-window loop of the "t1" and "t2" implementations
RECURSIVE LsLoop(_, _, _, _, _)
LsLoop(i, d, N, t, impl) ==
    IF i > NData(d) - N THEN d
    ELSE LET i_s == i
             i_e == i + N
             f   == LsFitWindow(Slice(XObs(d), i_s, i_e), Slice(t, i_s, i_e), N)
         IN  LsLoop(i + 1,
                    Write(Write(d, i_e - 1, "x_ls_" \o impl, f[1]),
                          i_e - 1, "y_ls_" \o impl, f[2]),
                    N, t, impl)

\* an Ls.process that takes every impl it does not know for "t2"
LsProcessDefaultT2(self, d, impl) ==
    LET N     == self.N
        T_ns  == IF self.T_ns = Inf THEN LearnPeriod(T1(d)) ELSE self.T_ns
        self1 == [self EXCEPT !.T_ns = T_ns]
    IN  IF impl = "eff"
        THEN IF N = 1
             THEN Outcome("ZeroDivisionError", d, self1)
             ELSE IF NData(d) - N + 1 < 0
             THEN Outcome("ValueError", d, self1)
             ELSE Outcome("none", LsEffSave(0, d, N, T_ns, impl), self1)
        ELSE Outcome("none",
                     LsLoop(0, d, N, IF impl = "t1" THEN T1(d) ELSE T2(d), impl),
                     self1)

\* Ls.process: [err, data, self]
LsProcess(self, d, impl) ==
    LET N     == self.N
        T_ns  == IF self.T_ns = Inf THEN LearnPeriod(T1(d)) ELSE self.T_ns
        self1 == [self EXCEPT !.T_ns = T_ns]
    IN  IF impl \notin {"t1", "t2", "eff"}
        THEN Outcome("ValueError", d, self1)
        ELSE IF impl = "eff"
        THEN IF N = 1
             THEN Outcome("ZeroDivisionError", d, self1)   \* 6/(N-1)
             ELSE IF NData(d) - N + 1 < 0
             THEN Outcome("ValueError", d, self1)           \* np.zeros, negative shape
             ELSE Outcome("none", LsEffSave(0, d, N, T_ns, impl), self1)
        ELSE Outcome("none",
                     LsLoop(0, d, N, IF impl = "t1" THEN T1(d) ELSE T2(d), impl),
                     self1)

(***************************************************************************)
(* The traces.  A record of the enumerated family has a forward and a      *)
(* backward delay difference from Shapes (x_est and d_est are the two-way  *)
(* measurements they give); the whole trace has one of the drift patterns. *)
(* The mode-tuning family has ModeL records whose forward differences are  *)
(* all in different bins, except that each of the last three records may   *)
(* repeat the value RepFw; their backward difference is constant.          *)
(***************************************************************************)
Shapes == {<<0, 0>>, <<4, 2>>, <<2, 6>>}
RepFw  == 4
ModeBw == 6

DriftPatterns == {"absent", "zeros", "ones", "first"}

MkRec(i, fw, bw) ==
    [t1    |-> i * Period,
     t2    |-> i * Period + fw,
     t3    |-> i * Period + fw + 1,
     t4    |-> i * Period + fw + 1 + bw,
     x_est |-> (fw - bw) \div 2,
     d_est |-> (fw + bw) \div 2]

WithDrift(r, i, pat) ==
    CASE pat = "zeros"           -> Put(r, "drift", 0)
      [] pat = "ones"            -> Put(r, "drift", 1)
      [] pat = "first" /\ i = 0  -> Put(r, "drift", 2)
      [] OTHER                   -> r

SmallTraces ==
    UNION {{[i \in 0 .. L - 1 |-> WithDrift(MkRec(i, sh[i][1], sh[i][2]), i, pat)] :
              sh \in [0 .. L - 1 -> Shapes], pat \in DriftPatterns} :
           L \in 1 .. MaxL}

ModeTraces ==
    {[i \in 0 .. ModeL - 1 |->
        MkRec(i, IF i \in rep THEN RepFw ELSE 10 * i, ModeBw)] :
     rep \in SUBSET ((ModeL - 3) .. (ModeL - 1))}

\* traces without noise: t1 and t2 advance by Period, x_est by -slope
LinearTraces ==
    {[i \in 0 .. L - 1 |-> MkRec(i, RepFw, 2 + 2 * slope * i)] :
       L \in 2 .. MaxL, slope \in 1 .. 2}

Traces == SmallTraces \cup ModeTraces \cup LinearTraces

\* the T_ns given to Ls: none, the period of the traces, another one
LsPeriods == {Inf, RInt(Period), RInt(2 * Period)}

MaxN == MaxL + 1

Strategies  == SampleStrategies \cup WindowStrategies
BatchSizes  == {1, 2, DefaultBatchSize}

NoCall ==
    [op |-> "init", name |-> "", N |-> 0, T_ns |-> Inf, drift_comp |-> FALSE,
     vectorize |-> FALSE, batch |-> FALSE, batch_size |-> 0, err |-> "none"]


(***************************************************************************)
(* Optimizer (src/ptp/window.py).                                          *)
(*                                                                         *)
(* The optimizer's searches run on traces of 16 and more records, with one *)
(* estimator run per candidate.  In its specification the records keep,    *)
(* for every key an estimator writes, the window length of the run that    *)
(* wrote it in place of the number (EstTag), and the score                 *)
(* max|estimate - x| of a run of window length N is te[N]: which keys a    *)
(* run writes, pops and leaves, on which records, and how a run fails, are *)
(* the code's.                                                             *)
(***************************************************************************)
NoneN == 0      \* None, as a window length

\* Optimizer.est_op as the class statement builds it
EstOp0 ==
    [e \in {"ls", "sample-average", "sample-ewma", "sample-median", "sample-min",
            "sample-min-ls", "sample-max", "sample-mode", "sample-mode-ls"} |->
       CASE e = "ls"             -> [impl |-> "eff",     est_key |-> "ls_eff",       N_best |-> NoneN]
         [] e = "sample-average" -> [impl |-> "average", est_key |-> "pkts_average", N_best |-> NoneN]
         [] e = "sample-ewma"    -> [impl |-> "ewma",    est_key |-> "pkts_ewma",    N_best |-> NoneN]
         [] e = "sample-median"  -> [impl |-> "median",  est_key |-> "pkts_median",  N_best |-> NoneN]
         [] e = "sample-min"     -> [impl |-> "min",     est_key |-> "pkts_min",     N_best |-> NoneN]
         [] e = "sample-min-ls"  -> [impl |-> "min",     est_key |-> "pkts_min_ls",  N_best |-> NoneN]
         [] e = "sample-max"     -> [impl |-> "max",     est_key |-> "pkts_max",     N_best |-> NoneN]
         [] e = "sample-mode"    -> [impl |-> "mode",    est_key |-> "pkts_mode",    N_best |-> NoneN]
         [] e = "sample-mode-ls" -> [impl |-> "mode",    est_key |-> "pkts_mode_ls", N_best |-> NoneN]]

\* the order of est_op.keys(): the order of the dictionary display
EstOrder ==
    <<"ls", "sample-average", "sample-ewma", "sample-median", "sample-min",
      "sample-min-ls", "sample-max", "sample-mode", "sample-mode-ls">>

\* re.search("-ls$", estimator), on the names the model passes
EndsWithLs(e) == e \in {"sample-min-ls", "sample-mode-ls", "bogus-ls"}

EstTag(N) == <<N, 1>>

Range(lo, hi) == lo .. hi

\* data[j][k] = v for every j of S
WriteAll(d, S, k, v) ==
    [j \in DOMAIN d |-> IF j \in S THEN Put(d[j], k, v) ELSE d[j]]

\* PktSelection(N, data).process(strategy): what the call with the default
\* arguments (drift compensation, vectorized, batches of 4096) does to the keys
PktsEffect(d, N, strategy) ==
    LET L         == NData(d)
        n_windows == L - (N - 1)
        key       == PktsKey(strategy)
    IN  IF ~NpAny(DriftEst(d, TRUE))
        THEN [err |-> "AssertionError", data |-> d]
        ELSE IF strategy \in SampleStrategies
        THEN [err |-> "none", data |-> WriteAll(d, DOMAIN d, key, EstTag(N))]
        ELSE IF n_windows <= 0
        THEN [err |-> "none", data |-> d]
        ELSE IF strategy = "avg-normal" /\ ~NpAny(Slice(XObs(d), 0, DefaultBatchSize - 1 + N))
        THEN [err |-> "AssertionError", data |-> d]
        ELSE IF /\ strategy # "avg-normal"
                /\ \/ ~NpAny(Slice(T2MinusT1(d), 0, DefaultBatchSize - 1 + N))
                   \/ ~NpAny(Slice(T4MinusT3(d), 0, DefaultBatchSize - 1 + N))
        THEN [err |-> "AssertionError", data |-> d]
        ELSE IF strategy \notin WindowStrategies
        THEN [err |-> "ValueError", data |-> d]
        ELSE IF /\ strategy = "mode"
                /\ N < CntThreshold
                /\ (IF n_windows < NTuning THEN n_windows ELSE NTuning) > TuneLimit
        THEN [err |-> "hang", data |-> d]
        ELSE [err  |-> "none",
              data |-> WriteAll(d, Range(N - 1, L - 1), key, EstTag(N))]

\* Ls(N, data, T_ns).process(impl): what the call does to the keys
LsEffect(d, N, impl) ==
    LET L == NData(d)
    IN  IF impl \notin {"t1", "t2", "eff"}
        THEN [err |-> "ValueError", data |-> d]
        ELSE IF impl = "eff" /\ N = 1
        THEN [err |-> "ZeroDivisionError", data |-> d]
        ELSE IF impl = "eff" /\ L - N + 1 < 0
        THEN [err |-> "ValueError", data |-> d]
        ELSE [err  |-> "none",
              data |-> WriteAll(WriteAll(d, Range(N - 1, L - 1),
                                         "x_ls_" \o impl, EstTag(N)),
                                Range(N - 1, L - 1), "y_ls_" \o impl, EstTag(N))]

(***************************************************************************)
(* The Optimizer instance and its call.  self.est_op reads the instance    *)
(* attribute that load() sets, and the class attribute otherwise.          *)
(***************************************************************************)
InfScore == -1          \* np.inf, as a score (scores are >= 0)

CoarsePatience == 5     \* patience of _eval_max_te
FinePatience   == 100   \* patience of the fine pass
AverageSkip    == 300   \* samples skipped for "sample-average"

Opt0 ==
    [pc             |-> "idle",
     err            |-> "none",
     arg            |-> "",        \* estimator argument of process()
     force          |-> FALSE,
     early_stopping |-> TRUE,
     save           |-> FALSE,
     loaded         |-> FALSE,     \* the instance has its own est_op
     own_est_op     |-> EstOp0,    \* the instance attribute, when loaded
     sample_skip    |-> 0,
     estimators     |-> <<>>,      \* the list process() iterates over
     k              |-> 1,         \* position in that list
     search         |-> "",        \* estimator of the running _search_min_max_te
     ret            |-> "",        \* where that search returns to
     phase          |-> "",        \* coarse or fine pass
     window_vec     |-> <<>>,      \* candidates of the running _eval_max_te
     max_te         |-> <<>>,
     i              |-> 0,
     min_max_te     |-> InfScore,
     N_best         |-> NoneN,     \* local N_best, NoneN while unbound
     N_scnd_best    |-> NoneN,     \* local N_scnd_best of the running search
     patience       |-> CoarsePatience,
     patience_count |-> 0,
     i_iter         |-> 0,
     scored         |-> {},        \* history: <<N, score>> of the running search
     searched       |-> <<>>,      \* history: the searches started, in order
     done           |-> {},        \* history: the searches that returned
     ran            |-> FALSE,     \* history: an estimator was run
     instance       |-> 1]         \* history: the Optimizer instances so far

SelfEstOp == IF opt.loaded THEN opt.own_est_op ELSE est_op

Raise(o, e) == [o EXCEPT !.pc = "raised", !.err = e]

\* floor(log2(L/2)) for L >= 1
RECURSIVE FloorLog2Half(_)
FloorLog2Half(L) == IF L < 4 THEN (IF L >= 2 THEN 0 ELSE -1)
                    ELSE 1 + FloorLog2Half(L \div 2)

RECURSIVE Pow2(_)
Pow2(n) == IF n = 0 THEN 1 ELSE 2 * Pow2(n - 1)

\* 2**np.arange(1, log_max_window + 1, 1), as a vector on 0 .. n-1
CoarseWindows(L) == [i \in 0 .. FloorLog2Half(L) - 1 |-> Pow2(i + 1)]

\* the integers strictly between lo and hi
ArangeAbove(lo, hi) == [i \in 0 .. (hi - lo) - 2 |-> lo + 1 + i]

\* np.arange(lo, hi, 1)
Arange(lo, hi) == [i \in 0 .. (hi - lo) - 1 |-> lo + i]

\* v[:n]
Trunc(v, n) == [i \in {j \in DOMAIN v : j < n} |-> v[i]]

\* np.argsort: the index of the element of each rank (equal scores keep their order)
ArgSort(v) ==
    [r \in DOMAIN v |->
       CHOOSE i \in DOMAIN v :
         Cardinality({j \in DOMAIN v : v[j] < v[i] \/ (v[j] = v[i] /\ j < i)}) = r]

\* an _eval_max_te that waits one candidate more than its patience
EnterEvalPatient(o, window_vec, patience) ==
    [o EXCEPT !.pc             = IF Size(window_vec) = 0 THEN "eval_ret" ELSE "eval_run",
              !.window_vec     = window_vec,
              !.max_te         = [i \in DOMAIN window_vec |-> 0],
              !.i              = 0,
              !.min_max_te     = InfScore,
              !.N_best         = NoneN,
              !.patience       = patience + 1,
              !.patience_count = 0,
              !.i_iter         = 0]

\* the call of _eval_max_te(window_vec, estimator, early_stopping, patience)
EnterEval(o, window_vec, patience) ==
    [o EXCEPT !.pc             = IF Size(window_vec) = 0 THEN "eval_ret" ELSE "eval_run",
              !.window_vec     = window_vec,
              !.max_te         = [i \in DOMAIN window_vec |-> 0],
              !.i              = 0,
              !.min_max_te     = InfScore,
              !.N_best         = NoneN,
              !.patience       = patience,
              !.patience_count = 0,
              !.i_iter         = 0]

\* a search that passes over an estimator est_op does not have
EnterSearchSkipUnknown(o, eo, estimator, ret, L) ==
    IF estimator \notin DOMAIN eo
    THEN [o EXCEPT !.pc = "loop", !.k = @ + 1]
    ELSE EnterEval([o EXCEPT !.search   = estimator,
                             !.ret      = ret,
                             !.phase    = "coarse",
                             !.scored   = {},
                             !.searched = Append(@, estimator)],
                   CoarseWindows(L), CoarsePatience)

\* the call of _search_min_max_te(estimator), up to its coarse _eval_max_te
EnterSearch(o, eo, estimator, ret, L) ==
    IF estimator \notin DOMAIN eo
    THEN Raise([o EXCEPT !.search = estimator], "KeyError")
    ELSE EnterEval([o EXCEPT !.search   = estimator,
                             !.ret      = ret,
                             !.phase    = "coarse",
                             !.scored   = {},
                             !.searched = Append(@, estimator)],
                   CoarseWindows(L), CoarsePatience)

FileCfg == [e \in DOMAIN EstOp0 |-> [EstOp0[e] EXCEPT !.N_best = 4]]

\* a process() that loads the file whenever there is one
OptProcessIgnoringForce(estimator, force, early_stopping, save) ==
    /\ opt.pc = "idle"
    /\ LET o == [opt EXCEPT !.arg = estimator, !.sample_skip = 0, !.force = force,
                            !.early_stopping = early_stopping, !.save = save]
       IN  IF cfg_file.exists
           THEN opt' = [o EXCEPT !.loaded = TRUE, !.own_est_op = cfg_file.contents,
                                 !.pc = "returned"]
           ELSE opt' = [o EXCEPT !.pc = "loop", !.k = 1,
                                 !.estimators = IF estimator = "all" THEN EstOrder
                                                ELSE <<estimator>>]
    /\ UNCHANGED <<data, pkts, last, calls, est_op, te, cfg_file, ser>>

\* Optimizer.process, up to its loop over the estimators
OptProcess(estimator, force, early_stopping, save) ==
    /\ opt.pc = "idle"
    /\ LET o == [opt EXCEPT !.arg = estimator, !.sample_skip = 0, !.force = force,
                            !.early_stopping = early_stopping, !.save = save]
       IN  IF ~force /\ cfg_file.exists
           THEN opt' = [o EXCEPT !.loaded = TRUE, !.own_est_op = cfg_file.contents,
                                 !.pc = "returned"]
           ELSE opt' = [o EXCEPT !.pc = "loop", !.k = 1,
                                 !.estimators = IF estimator = "all" THEN EstOrder
                                                ELSE <<estimator>>]
    /\ UNCHANGED <<data, pkts, last, calls, est_op, te, cfg_file, ser>>

\* one turn of the loop of process(): the next estimator, or the end of the call
OptLoop ==
    /\ opt.pc = "loop"
    /\ IF opt.k > Len(opt.estimators)
       THEN /\ opt' = [opt EXCEPT !.pc = "returned"]
            /\ cfg_file' = IF opt.save
                           THEN [exists |-> TRUE, contents |-> SelfEstOp]
                           ELSE cfg_file
       ELSE LET estimator == opt.estimators[opt.k]
            IN  /\ cfg_file' = cfg_file
                /\ IF EndsWithLs(estimator)
                   THEN IF SelfEstOp["ls"].N_best = NoneN
                        THEN opt' = EnterSearch(opt, SelfEstOp, "ls", "ls_run",
                                                NData(data))
                        ELSE opt' = [opt EXCEPT !.pc = "ls_run"]
                   ELSE opt' = EnterSearch(opt, SelfEstOp, estimator, "loop",
                                           NData(data))
    /\ UNCHANGED <<data, pkts, last, calls, est_op, te, ser>>

\* the LS run that precedes the search of an estimator suffixed "-ls"
OptLsRun ==
    /\ opt.pc = "ls_run"
    /\ LET r == LsEffect(data, SelfEstOp["ls"].N_best, "eff")
       IN  /\ data' = r.data
           /\ opt'  = IF r.err # "none" THEN Raise(opt, r.err)
                      ELSE EnterSearch([opt EXCEPT !.ran = TRUE], SelfEstOp,
                                       opt.estimators[opt.k], "loop", NData(data))
    /\ UNCHANGED <<pkts, last, calls, est_op, te, cfg_file, ser>>

\* _eval_max_te: the estimator run of candidate i
EvalRun ==
    /\ opt.pc = "eval_run"
    /\ LET N == opt.window_vec[opt.i]
           r == IF opt.search = "ls"
                THEN LsEffect(data, N, SelfEstOp[opt.search].impl)
                ELSE PktsEffect(data, N, SelfEstOp[opt.search].impl)
       IN  /\ data' = r.data
           /\ opt'  = IF r.err = "hang" THEN [opt EXCEPT !.pc = "hung"]
                      ELSE IF r.err # "none" THEN Raise(opt, r.err)
                      ELSE [opt EXCEPT !.pc = "eval_score", !.ran = TRUE]
    /\ UNCHANGED <<pkts, last, calls, est_op, te, cfg_file, ser>>

\* _eval_max_te: the scoring of candidate i, from the errors to the loop's end
EvalScore ==
    /\ opt.pc = "eval_score"
    /\ LET N       == opt.window_vec[opt.i]
           key     == "x_" \o SelfEstOp[opt.search].est_key
           skip    == IF opt.search = "sample-average" THEN AverageSkip
                      ELSE opt.sample_skip
           x_err   == {j \in DOMAIN data : j >= skip /\ Has(data[j], key)}
           popped  == [j \in DOMAIN data |-> Pop(data[j], key)]
           score   == te[N]
           better  == opt.min_max_te = InfScore \/ score < opt.min_max_te
           count   == IF better THEN 0 ELSE opt.patience_count + 1
           stop    == opt.early_stopping /\ count > opt.patience
           o1      == [opt EXCEPT
                         !.sample_skip    = skip,
                         !.max_te         = [@ EXCEPT ![opt.i] = score],
                         !.min_max_te     = IF better THEN score ELSE @,
                         !.N_best         = IF better THEN N ELSE @,
                         !.patience_count = count,
                         !.scored         = @ \cup {<<N, score>>}]
       IN  /\ data' = IF \E j \in x_err : ~Has(data[j], "x") THEN data ELSE popped
           /\ IF \E j \in x_err : ~Has(data[j], "x")
              THEN opt' = Raise([opt EXCEPT !.sample_skip = skip], "KeyError")
              ELSE IF x_err = {}
              THEN opt' = Raise([opt EXCEPT !.sample_skip = skip], "ValueError")
              ELSE IF stop
              THEN opt' = [o1 EXCEPT !.pc = "eval_ret"]
              ELSE IF opt.i + 1 >= Size(opt.window_vec)
              THEN opt' = [o1 EXCEPT !.pc = "eval_ret", !.i_iter = opt.i]
              ELSE opt' = [o1 EXCEPT !.pc = "eval_run", !.i_iter = opt.i,
                                     !.i = opt.i + 1]
    /\ UNCHANGED <<pkts, last, calls, est_op, te, cfg_file, ser>>

\* _search_min_max_te after the coarse _eval_max_te: the fine _eval_max_te's call
FinePass(o) ==
    LET i_stop     == o.i_iter
        max_te     == Trunc(o.max_te, i_stop)
        i_max_te   == ArgSort(max_te)
        window_len == Trunc(o.window_vec, i_stop)
    IN  IF Size(i_max_te) < 2
        THEN Raise(o, "IndexError")
        ELSE LET N_scnd_best == window_len[i_max_te[1]]
             IN  EnterEval([o EXCEPT !.phase = "fine",
                                     !.N_scnd_best = N_scnd_best],
                           IF o.N_best > N_scnd_best
                           THEN Arange(N_scnd_best, o.N_best)
                           ELSE Arange(o.N_best, N_scnd_best),
                           FinePatience)

\* the return of _eval_max_te and what _search_min_max_te does with it: the
\* fine pass after the coarse one, the assignment of N_best after the fine one
EvalRet ==
    /\ opt.pc = "eval_ret"
    /\ IF opt.N_best = NoneN
       THEN /\ opt' = Raise(opt, "UnboundLocalError")
            /\ UNCHANGED est_op
       ELSE IF opt.phase = "coarse"
       THEN /\ opt' = FinePass(opt)
            /\ UNCHANGED est_op
       ELSE LET o    == [opt EXCEPT !.done = @ \cup {opt.search},
                                    !.pc   = opt.ret,
                                    !.k    = IF opt.ret = "loop" THEN @ + 1 ELSE @]
                best == [SelfEstOp EXCEPT ![opt.search].N_best = opt.N_best]
            IN  IF opt.loaded
                THEN /\ opt' = [o EXCEPT !.own_est_op = best]
                     /\ UNCHANGED est_op
                ELSE /\ opt' = o
                     /\ est_op' = best
    /\ UNCHANGED <<data, pkts, last, calls, te, cfg_file, ser>>

(***************************************************************************)
(* The optimizer's traces, scores and calls.                               *)
(***************************************************************************)
OptLens == {2, 8, 16}     \* trace lengths: no, one and three coarse candidates
MaxTeN  == 8              \* the largest candidate window length on them

\* a trace of L records: with or without the true offset "x", the drift
\* estimates, and the estimates of an earlier PktSelection(1, data).process("min")
OptTrace(L, has_x, has_drift, has_min) ==
    [i \in 0 .. L - 1 |->
       LET r0 == MkRec(i, 4, 2)
           r1 == IF has_x THEN Put(r0, "x", 1) ELSE r0
           r2 == IF has_drift THEN Put(r1, "drift", 1) ELSE r1
       IN  IF has_min THEN Put(r2, "x_pkts_min", EstTag(1)) ELSE r2]

OptTraces ==
    {OptTrace(L, has_x, has_drift, has_min) :
       L \in OptLens, has_x \in BOOLEAN, has_drift \in BOOLEAN, has_min \in BOOLEAN}

\* score landscapes: a valley at m with slopes a and b, a plateau, a zigzag
Valley(m, a, b) ==
    [N \in 1 .. MaxTeN |-> 1 + (IF N < m THEN a * (m - N) ELSE b * (N - m))]

Landscapes ==
    {Valley(m, a, b) : m \in 2 .. MaxTeN, a \in {1, 2}, b \in {1, 3}}
      \cup {[N \in 1 .. MaxTeN |-> 5], [N \in 1 .. MaxTeN |-> 3 + (N % 2)]}

NoFile == [exists |-> FALSE, contents |-> EstOp0]

OptArgs == {"all", "ls", "sample-median", "sample-min", "sample-min-ls",
            "sample-mode", "bogus", "bogus-ls"}

InitOpt ==
    /\ data \in OptTraces
    /\ te \in Landscapes
    /\ cfg_file \in {NoFile, [exists |-> TRUE, contents |-> FileCfg]}
    /\ ser = Ser0
    /\ est_op = EstOp0
    /\ opt = Opt0
    /\ pkts = PktSelectionInit(1)
    /\ last = NoCall
    /\ calls = 0

NextOpt ==
    \/ \E estimator \in OptArgs, force \in BOOLEAN, early_stopping \in BOOLEAN,
          save \in BOOLEAN : OptProcess(estimator, force, early_stopping, save)
    \/ OptLoop
    \/ OptLsRun
    \/ EvalRun
    \/ EvalScore
    \/ EvalRet

SpecOpt == InitOpt /\ [][NextOpt]_vars

(***************************************************************************)
(* SpecStop: searches on a trace long enough for the coarse pass to have   *)
(* nine candidates, 2 .. 512, and the fine pass more than a hundred, so    *)
(* that a pass with early stopping can end before its last candidate.      *)
(***************************************************************************)
StopL   == 1024
StopTeN == 512

\* scores over 1 .. StopTeN: rising, falling, flat, a valley at 8, and a
\* minimum at 128 with a second dip at 256
StopLandscapes ==
    {[N \in 1 .. StopTeN |-> N],
     [N \in 1 .. StopTeN |-> StopTeN + 1 - N],
     [N \in 1 .. StopTeN |-> 5],
     [N \in 1 .. StopTeN |-> 1 + (IF N < 8 THEN 8 - N ELSE N - 8)],
     [N \in 1 .. StopTeN |-> IF N = 128 THEN 1 ELSE IF N = 256 THEN 2 ELSE 3]}

InitStop ==
    /\ data = OptTrace(StopL, TRUE, TRUE, FALSE)
    /\ te \in StopLandscapes
    /\ cfg_file = NoFile
    /\ ser = Ser0
    /\ est_op = EstOp0
    /\ opt = Opt0
    /\ pkts = PktSelectionInit(1)
    /\ last = NoCall
    /\ calls = 0

NextStop ==
    \/ \E estimator \in {"ls", "sample-min"}, early_stopping \in BOOLEAN :
         OptProcess(estimator, FALSE, early_stopping, FALSE)
    \/ OptLoop
    \/ EvalRun
    \/ EvalScore
    \/ EvalRet

SpecStop == InitStop /\ [][NextStop]_vars

(***************************************************************************)
(* SpecProg: a program that constructs Optimizer instances one after the   *)
(* other, each on the trace as the earlier one left it.  est_op is the     *)
(* attribute of the class: __init__ does not assign it, so a new instance  *)
(* reads the dictionary the earlier instances wrote to.                    *)
(***************************************************************************)
MaxInstances == 2

ProgArgs == {"ls", "sample-median", "sample-min-ls"}

InitProg ==
    /\ data = OptTrace(16, TRUE, FALSE, FALSE)
    /\ te \in {Valley(4, 1, 1), Valley(MaxTeN, 2, 3)}
    /\ cfg_file = NoFile
    /\ ser = Ser0
    /\ est_op = EstOp0
    /\ opt = Opt0
    /\ pkts = PktSelectionInit(1)
    /\ last = NoCall
    /\ calls = 0

\* Optimizer(data, T_ns), once the call on the earlier instance has ended
OptConstruct ==
    /\ opt.pc \in {"returned", "raised"}
    /\ opt.instance < MaxInstances
    /\ opt' = [Opt0 EXCEPT !.instance = opt.instance + 1]
    /\ UNCHANGED <<data, pkts, last, calls, est_op, te, cfg_file, ser>>

NextProg ==
    \/ \E estimator \in ProgArgs, early_stopping \in BOOLEAN :
         OptProcess(estimator, FALSE, early_stopping, FALSE)
    \/ OptLoop
    \/ OptLsRun
    \/ EvalRun
    \/ EvalScore
    \/ EvalRet
    \/ OptConstruct

SpecProg == InitProg /\ [][NextProg]_vars

(***************************************************************************)
(* The specification of the estimators: one call of PktSelection.process,  *)
(* PktSelection.set_window_len or Ls.process on a trace.                   *)
(***************************************************************************)
Init ==
    /\ data \in Traces
    /\ \E N \in 1 .. MaxN : pkts = PktSelectionInit(N)
    /\ last = NoCall
    /\ calls = 0
    /\ est_op = EstOp0
    /\ opt = Opt0
    /\ te = [N \in 1 .. MaxTeN |-> 0]
    /\ cfg_file = NoFile
    /\ ser = Ser0

\* the calls enumerated on a trace: every one on the short traces, the mode
\* strategy alone on the long traces of the mode-tuning family
Enumerated(name) == NData(data) <= MaxL \/ name = "mode"

\* pkts.process(strategy, drift_comp, vectorize, batch, batch_size)
PktsProcess(strategy, drift_comp, vectorize, batch, batch_size) ==
    /\ calls < MaxCalls
    /\ Enumerated(strategy)
    /\ LET r == Process(pkts, data, strategy, drift_comp, vectorize, batch,
                        batch_size)
       IN  /\ data' = r.data
           /\ pkts' = r.self
           /\ last' = [op |-> "pkts", name |-> strategy, N |-> pkts.N,
                       T_ns |-> Inf,
                       drift_comp |-> drift_comp, vectorize |-> vectorize,
                       batch |-> batch, batch_size |-> batch_size,
                       err |-> r.err]
    /\ calls' = calls + 1
    /\ UNCHANGED <<est_op, opt, te, cfg_file, ser>>

\* pkts.set_window_len(N)
SetWindowLen(N) ==
    /\ calls < MaxCalls
    /\ pkts' = SetWindowLenOp(pkts, N)
    /\ last' = [NoCall EXCEPT !.op = "set_window_len", !.N = N]
    /\ calls' = calls + 1
    /\ UNCHANGED <<data, est_op, opt, te, cfg_file, ser>>

\* Ls(N, data, T_ns).process(impl)
LsRun(N, T_ns, impl) ==
    /\ calls < MaxCalls
    /\ Enumerated(impl)
    /\ LET r == LsProcess(LsInit(N, T_ns), data, impl)
       IN  /\ data' = r.data
           /\ last' = [NoCall EXCEPT !.op = "ls", !.name = impl, !.N = N,
                                     !.T_ns = T_ns,
                                     !.err = r.err]
    /\ calls' = calls + 1
    /\ UNCHANGED <<pkts, est_op, opt, te, cfg_file, ser>>

Next ==
    \/ \E strategy \in Strategies \cup {"bogus"}, drift_comp \in BOOLEAN :
         \/ PktsProcess(strategy, drift_comp, FALSE, TRUE, DefaultBatchSize)
         \/ PktsProcess(strategy, drift_comp, TRUE, FALSE, DefaultBatchSize)
         \/ \E batch_size \in BatchSizes :
              PktsProcess(strategy, drift_comp, TRUE, TRUE, batch_size)
    \/ \E N \in 1 .. MaxN : SetWindowLen(N)
    \/ \E N \in 1 .. MaxN, T_ns \in LsPeriods,
          impl \in {"t1", "t2", "eff", "bogus"} : LsRun(N, T_ns, impl)

Spec == Init /\ [][Next]_vars

(***************************************************************************)
(* SpecStream: one PktSelection instance used for several calls.  The      *)
(* instance keeps a reference to the caller's list of records              *)
(* (self.data = data), so between two calls the caller may have put other  *)
(* records in the list; the stream strategies carry their accumulators     *)
(* from one call to the next.  MaxStreamCalls bounds the process() calls.  *)
(***************************************************************************)
MaxStreamCalls == 2

\* the short traces without drift estimates
StreamTraces ==
    UNION {{[i \in 0 .. L - 1 |-> MkRec(i, sh[i][1], sh[i][2])] :
              sh \in [0 .. L - 1 -> Shapes]} :
           L \in 1 .. MaxL}

InitStream ==
    /\ data \in StreamTraces
    /\ \E N \in 1 .. MaxL : pkts = PktSelectionInit(N)
    /\ last = NoCall
    /\ calls = 0
    /\ est_op = EstOp0
    /\ opt = Opt0
    /\ te = [N \in 1 .. MaxTeN |-> 0]
    /\ cfg_file = NoFile
    /\ ser = Ser0

\* pkts.process(strategy) of a stream strategy, sample by sample
StreamProcess(strategy) ==
    /\ calls < MaxStreamCalls
    /\ LET r == Process(pkts, data, strategy, FALSE, FALSE, TRUE,
                        DefaultBatchSize)
       IN  /\ data' = r.data
           /\ pkts' = r.self
           /\ last' = [op |-> "pkts", name |-> strategy, N |-> pkts.N,
                       T_ns |-> Inf,
                       drift_comp |-> FALSE, vectorize |-> FALSE,
                       batch |-> TRUE, batch_size |-> DefaultBatchSize,
                       err |-> r.err]
    /\ calls' = calls + 1
    /\ UNCHANGED <<est_op, opt, te, cfg_file, ser>>

\* pkts.set_window_len(N)
StreamSetWindowLen(N) ==
    /\ pkts' = SetWindowLenOp(pkts, N)
    /\ last' = [NoCall EXCEPT !.op = "set_window_len", !.N = N]
    /\ UNCHANGED <<data, calls, est_op, opt, te, cfg_file, ser>>

\* the caller puts other records in the list the instance refers to (once
\* between two calls: a second refill only undoes the first)
StreamRefill(trace) ==
    /\ last.op \notin {"init", "refill"}
    /\ data' = trace
    /\ last' = [NoCall EXCEPT !.op = "refill"]
    /\ UNCHANGED <<pkts, calls, est_op, opt, te, cfg_file, ser>>

NextStream ==
    \/ \E strategy \in SampleStrategies : StreamProcess(strategy)
    \/ \E N \in 1 .. MaxL : StreamSetWindowLen(N)
    \/ \E trace \in StreamTraces : StreamRefill(trace)

SpecStream == InitStream /\ [][NextStream]_vars

(***************************************************************************)
(* Properties of the estimators, on Spec.  A step of Spec is one call:     *)
(* data and pkts are the trace and the instance before it, data' and last' *)
(* the trace and the call's record after it.                               *)
(***************************************************************************)
LocalStrategies == {"avg-normal", "median", "min", "max"}

\* the call is pkts.process with one of the strategies
PktsCall(strategies) == last'.op = "pkts" /\ last'.name \in strategies

\* drift compensation is asked for only with drift estimates in the trace
DriftGiven == last'.drift_comp => NpAny(DriftEst(data, TRUE))

\* the same call in the other processing mode
OtherMode ==
    Process(pkts, data, last'.name, last'.drift_comp, ~last'.vectorize,
            last'.batch, last'.batch_size)

\* C1: for N <= L and the strategies avg-normal, median, min and max, with or
\* without drift compensation (given drift estimates), the call completes
\* without error in window-by-window and in vectorized mode, and both modes
\* leave the same estimates on the same records
C1_VectorizeEquivalent ==
    [][(PktsCall(LocalStrategies) /\ pkts.N <= NData(data) /\ DriftGiven)
         => /\ last'.err = "none"
            /\ OtherMode.err = "none"
            /\ OtherMode.data = data']_vars

\* the same vectorized call without batches
Unbatched ==
    Process(pkts, data, last'.name, last'.drift_comp, TRUE, FALSE,
            last'.batch_size)

\* C2: for N <= L, the strategies other than mode and every batch size, the
\* vectorized call in batches leaves on every record what the vectorized call
\* without batches leaves, and ends as it ends
C2_BatchEquivalent ==
    [][(/\ PktsCall(LocalStrategies)
        /\ last'.vectorize /\ last'.batch
        /\ pkts.N <= NData(data)
        /\ DriftGiven)
         => /\ Unbatched.err = last'.err
            /\ Unbatched.data = data']_vars

\* C10: a call with a strategy name that is none of the seven ends with an
\* error and leaves the trace as it was, whatever the trace, the window
\* length and the processing mode
C10_UnknownStrategyFails ==
    [][PktsCall({"bogus"}) => (last'.err # "none" /\ data' = data)]_vars

\* records lo .. hi of a trace, as a trace of their own
SubTrace(d, lo, hi) == [i \in 0 .. hi - lo |-> d[lo + i]]

\* the estimate of a fresh window-by-window run on the window that ends at
\* record j alone (drift compensation without drift estimates in the window
\* compensates nothing)
WindowAlone(d, j, N, strategy, drift_comp) ==
    LET sub == SubTrace(d, j - N + 1, j)
    IN  Process(PktSelectionInit(N), sub, strategy,
                drift_comp /\ NpAny(DriftEst(sub, TRUE)), FALSE, TRUE,
                DefaultBatchSize).data[N - 1][PktsKey(strategy)]

\* the x estimate of Ls on the window that ends at record j alone
LsWindowAlone(d, j, N, T_ns, impl) ==
    LsProcess(LsInit(N, T_ns), SubTrace(d, j - N + 1, j), impl)
      .data[N - 1]["x_ls_" \o impl]

\* a call that returned leaves key on the records N-1 .. L-1 and on those
\* that had it, and on no other
WrittenOnWindowEnds(key, N) ==
    \A j \in DOMAIN data' :
       Has(data'[j], key) <=> (j \in (N - 1) .. (NData(data) - 1) \/ Has(data[j], key))

\* pkts.process(strategy) that returned wrote, at the last record of every
\* window and nowhere else, what the window alone determines
PktsLocal(strategies) ==
    (PktsCall(strategies) /\ last'.err = "none" /\ pkts.N <= NData(data))
      => /\ WrittenOnWindowEnds(PktsKey(last'.name), pkts.N)
         /\ \A j \in (pkts.N - 1) .. (NData(data) - 1) :
              data'[j][PktsKey(last'.name)]
                = WindowAlone(data, j, pkts.N, last'.name, last'.drift_comp)

\* Ls.process(impl) that returned wrote its x estimate, at the last record of
\* every window and nowhere else, as the window alone determines it
LsLocal ==
    (last'.op = "ls" /\ last'.err = "none" /\ last'.N <= NData(data))
      => /\ WrittenOnWindowEnds("x_ls_" \o last'.name, last'.N)
         /\ \A j \in (last'.N - 1) .. (NData(data) - 1) :
              \E T_ns \in {Inf, RInt(Period)} :
                 data'[j]["x_ls_" \o last'.name]
                   = LsWindowAlone(data, j, last'.N, T_ns, last'.name)

Registered   == DOMAIN EstOp0
Unregistered == OptArgs \ (Registered \cup {"all"})

\* C4: the run of a registered estimator leaves the number of records as it
\* is, and every record's value of the key of every other registered
\* estimator as it is
C4_KeysDisjoint ==
    [][opt.pc = "eval_run"
         => /\ DOMAIN data' = DOMAIN data
            /\ \A e \in Registered \ {opt.search} :
                 LET key == "x_" \o SelfEstOp[e].est_key
                 IN  \A j \in DOMAIN data :
                        Has(data[j], key)
                          => Has(data'[j], key) /\ data'[j][key] = data[j][key]]_vars

\* the score falls up to window length m and rises after it
StrictlyUnimodalAt(m) ==
    \A N \in 1 .. MaxTeN - 1 : IF N < m THEN te[N] > te[N + 1] ELSE te[N] < te[N + 1]

CoarseCandidates == {CoarseWindows(NData(data))[i] : i \in DOMAIN CoarseWindows(NData(data))}

\* a search of estimator e has just returned
SearchReturned(e) ==
    e \in opt.done /\ opt.search = e /\ opt.pc \in {"loop", "ls_run", "returned"}

\* C5: with a score strictly unimodal in the window length, its minimum at a
\* length m between the smallest and the largest coarse candidate, a search
\* without early stopping sets the estimator's N_best to m
C5_FindsUnimodalMinimum ==
    \A e \in Registered, m \in 1 .. MaxTeN :
       (/\ SearchReturned(e)
        /\ ~opt.early_stopping
        /\ StrictlyUnimodalAt(m)
        /\ \E lo \in CoarseCandidates, hi \in CoarseCandidates : lo <= m /\ m <= hi)
         => SelfEstOp[e].N_best = m

\* C6: when a search returns, no candidate scored in its coarse or its fine
\* pass has a score below that of the estimator's N_best
C6_BestOfBothPasses ==
    \A e \in Registered :
       SearchReturned(e)
         => \A c \in opt.scored : te[SelfEstOp[e].N_best] <= c[2]

\* C7: process("all") without a configuration file ends only with every
\* registered estimator searched, in the order of est_op, and every N_best set
C7_AllSearched ==
    [][(/\ opt.arg = "all" /\ opt.pc # "idle" /\ ~cfg_file.exists
        /\ opt'.pc \in {"returned", "raised", "hung"})
         => /\ opt'.searched = EstOrder
            /\ \A e \in Registered : est_op'[e].N_best # NoneN]_vars

\* C8: process() with the configuration file there and force false makes the
\* file's contents its est_op and returns, no estimator run, no search begun
\* and no record changed; with force true it loads nothing and goes on to
\* its loop, where the search of a registered first estimator begins
C8_LoadUnlessForced ==
    [][/\ (opt.pc = "idle" /\ opt'.pc # "idle")
            => IF cfg_file.exists /\ ~opt'.force
               THEN /\ opt'.pc = "returned"
                    /\ opt'.loaded /\ opt'.own_est_op = cfg_file.contents
                    /\ data' = data
                    /\ ~opt'.ran /\ opt'.searched = <<>>
               ELSE opt'.pc = "loop" /\ ~opt'.loaded
       /\ (opt.pc = "loop" /\ opt.k = 1 /\ opt.force /\ opt.arg \notin Unregistered)
            => Len(opt'.searched) = 1 /\ opt'.pc \in {"eval_run", "eval_ret"}]_vars

\* the file was there, force was false, and the call loaded it and returned
C8_Witness ==
    /\ opt.pc = "returned" /\ opt.loaded /\ ~opt.force
    /\ cfg_file.exists /\ opt.own_est_op = FileCfg
    /\ opt.searched = <<>>

SameKeys(d1, d2) == \A j \in DOMAIN d1 : DOMAIN d1[j] = DOMAIN d2[j]

PktsEffectAgrees ==
    [][(/\ last'.op = "pkts"
        /\ last'.drift_comp /\ last'.vectorize /\ last'.batch
        /\ last'.batch_size = DefaultBatchSize)
         => LET e == PktsEffect(data, pkts.N, last'.name)
            IN  e.err = last'.err /\ SameKeys(e.data, data')]_vars

LsEffectAgrees ==
    [][last'.op = "ls"
         => LET e == LsEffect(data, last'.N, last'.name)
            IN  e.err = last'.err /\ SameKeys(e.data, data')]_vars

(***************************************************************************)
(* Further properties of the estimators, on Spec.                          *)
(***************************************************************************)
\* some record of the trace has the drift field
DriftPopulated == \E j \in DOMAIN data : Has(data[j], "drift")

\* C11: a call with drift compensation, sample-by-sample or window-by-window
\* (where no other assertion can fail), ends with the assertion error of the
\* missing drift estimates, nothing written, exactly when no record has the
\* drift field
C11_DriftErrorIffUnpopulated ==
    [][(/\ PktsCall(Strategies)
        /\ last'.drift_comp
        /\ (~last'.vectorize \/ last'.name \in SampleStrategies))
         => /\ (last'.err = "AssertionError") <=> ~DriftPopulated
            /\ last'.err = "AssertionError" => data' = data]_vars

\* C12: with a window longer than the trace, a call of a window strategy
\* (window-by-window, vectorized in batches or not; drift estimates given
\* when compensation is asked for) and a call of Ls with one of its three
\* impls end with an error
C12_LongWindowFails ==
    [][/\ (PktsCall(WindowStrategies) /\ pkts.N > NData(data) /\ DriftGiven)
            => last'.err # "none"
       /\ (last'.op = "ls" /\ last'.name \in {"t1", "t2", "eff"}
             /\ last'.N > NData(data))
            => last'.err # "none"]_vars

\* C13: a call of Ls with an impl other than "t1", "t2" and "eff" ends with
\* ValueError and leaves every record as it was
C13_UnknownImplFails ==
    [][(last'.op = "ls" /\ last'.name \notin {"t1", "t2", "eff"})
         => last'.err = "ValueError" /\ data' = data]_vars

\* Ls with windows of two records, impl "bogus", on three records
C13_Witness ==
    /\ last.op = "ls" /\ last.name = "bogus" /\ last.N = 2
    /\ last.err = "ValueError"
    /\ NData(data) = 3
    /\ \A j \in DOMAIN data : ~Has(data[j], "x_ls_bogus") /\ ~Has(data[j], "y_ls_bogus")

\* the drift accumulated from the first record up to each record
DriftCum(d) == CumSum(DriftEst(d, TRUE))

\* the trace before the drift was added to its measurements: x_est and
\* t2 - t1 without the accumulated drift, t4 - t3 with it
Unshifted(d) ==
    [i \in DOMAIN d |->
       [d[i] EXCEPT !["x_est"] = @ - DriftCum(d)[i],
                    !["t2"]    = @ - DriftCum(d)[i],
                    !["t4"]    = @ + DriftCum(d)[i]]]

\* the call of the step, without drift compensation, on the unshifted trace
Uncompensated ==
    Process(pkts, Unshifted(data), last'.name, FALSE, last'.vectorize,
            last'.batch, last'.batch_size)

\* the call is a drift-compensated run of one of the strategies that, like
\* the uncompensated run on the unshifted trace, returns normally
CompensatedCall(strategies) ==
    /\ PktsCall(strategies)
    /\ last'.drift_comp
    /\ last'.err = "none"
    /\ Uncompensated.err = "none"

C14_DriftReAddedMode ==
    [][CompensatedCall({"mode"})
         => \A j \in DOMAIN data :
              LET k == PktsKey(last'.name)
              IN  Has(data'[j], k)
                    => data'[j][k] = RAdd(Uncompensated.data[j][k],
                                          RInt(DriftCum(data)[j]))]_vars

ConstantObs(d, v) == \A j \in DOMAIN d : d[j]["x_est"] = v

\* C15: whatever the accumulator and the circular buffer hold from earlier
\* calls, a call of the recursive moving average on records that all have
\* the measurement v writes v on the N-th record and on every later one
C15_ConstantAfterN ==
    [][PktsCall({"avg-recursive"})
         => \A v \in -2 .. 1 :
              ConstantObs(data, v)
                => \A j \in DOMAIN data :
                     j >= pkts.N - 1 => data'[j]["x_pkts_avg_recursive"] = RInt(v)]_vars

\* the second call of the moving average, windows of two samples, on three
\* records of measurement 1: the buffer held other values, the first output
\* is not 1, the second and the third are
C15_Witness ==
    /\ calls = 2
    /\ last.op = "pkts" /\ last.name = "avg-recursive" /\ last.N = 2
    /\ NData(data) = 3
    /\ ConstantObs(data, 1)
    /\ data[0]["x_pkts_avg_recursive"] # RInt(1)
    /\ data[1]["x_pkts_avg_recursive"] = RInt(1)
    /\ data[2]["x_pkts_avg_recursive"] = RInt(1)

\* the EWMA fields are as the constructor and set_window_len leave them
FreshEwma(self) ==
    LET f == SetWindowLenOp(self, self.N)
    IN  /\ self.ewma_alpha = f.ewma_alpha
        /\ self.ewma_beta = f.ewma_beta
        /\ self.ewma_last_avg = f.ewma_last_avg
        /\ self.ewma_n = f.ewma_n

\* C16: on an instance just constructed or just reset, a call of the EWMA on
\* records that all have the measurement v writes v on every record
C16_EwmaUnbiased ==
    [][(PktsCall({"ewma"}) /\ FreshEwma(pkts))
         => \A v \in -2 .. 1 :
              ConstantObs(data, v)
                => \A j \in DOMAIN data : data'[j]["x_pkts_ewma"] = RInt(v)]_vars

\* the second call of the instance, an EWMA of N = 3 with its fields fresh,
\* on three records of measurement 1
C16_Witness ==
    /\ calls = 2
    /\ last.op = "pkts" /\ last.name = "ewma" /\ last.N = 3
    /\ NData(data) = 3
    /\ ConstantObs(data, 1)
    /\ pkts.ewma_n = 3
    /\ \A j \in DOMAIN data : data[j]["x_pkts_ewma"] = RInt(1)

(***************************************************************************)
(* Properties of Ls on traces without noise, on Spec.                      *)
(***************************************************************************)
\* x_est is linear in the index
LinearObs(d) ==
    \A i \in 1 .. NData(d) - 2 :
       d[i + 1]["x_est"] - d[i]["x_est"] = d[i]["x_est"] - d[i - 1]["x_est"]

\* t1 and t2 advance by the same constant period
EvenlySpaced(d) ==
    \A i \in 1 .. NData(d) - 1 :
       /\ d[i]["t1"] - d[i - 1]["t1"] = d[1]["t1"] - d[0]["t1"]
       /\ d[i]["t2"] - d[i - 1]["t2"] = d[1]["t1"] - d[0]["t1"]

\* the call is Ls.process("eff") with 2 <= N <= L on a trace without noise
NoiselessEffCall ==
    /\ last'.op = "ls" /\ last'.name = "eff"
    /\ last'.N \in 2 .. NData(data)
    /\ LinearObs(data) /\ EvenlySpaced(data)

\* what the call of the step and Ls.process("t2") of the same instance write
\* agree on the records N-1 .. L-1, and the offsets are the measurements
EffAgreesWithT2 ==
    LET r == LsProcess(LsInit(last'.N, last'.T_ns), data, "t2")
    IN  \A j \in (last'.N - 1) .. (NData(data) - 1) :
          /\ data'[j]["x_ls_eff"] = r.data[j]["x_ls_t2"]
          /\ data'[j]["x_ls_eff"] = RInt(data[j]["x_est"])
          /\ data'[j]["y_ls_eff"] = r.data[j]["y_ls_t2"]

\* C17: on a trace whose x_est is linear in the index and whose t1 and t2
\* advance by the same period, "eff" and "t2" write equal offsets and equal
\* rates on the records N-1 .. L-1, and the offset of a record is its x_est
C17_EffEqualsT2 ==
    [][NoiselessEffCall => EffAgreesWithT2]_vars

\* C17, as the code has it: the same, when the T_ns of the instance is that
\* period or is left to be learned from t1
C17_EffEqualsT2AtPeriod ==
    [][(/\ NoiselessEffCall
        /\ last'.T_ns \in {Inf, RInt(data[1]["t1"] - data[0]["t1"])})
         => EffAgreesWithT2]_vars

\* "eff" with windows of two records and a learned period, on three records
\* whose x_est falls by one per record: the rate is -1 / Period
C17_Witness ==
    /\ last.op = "ls" /\ last.name = "eff" /\ last.N = 2 /\ last.T_ns = Inf
    /\ last.err = "none"
    /\ NData(data) = 3
    /\ LinearObs(data) /\ EvenlySpaced(data)
    /\ data[1]["x_est"] - data[0]["x_est"] = -1
    /\ \A j \in 1 .. 2 :
         /\ data[j]["x_ls_eff"] = RInt(data[j]["x_est"])
         /\ data[j]["y_ls_eff"] = Rat(-1, Period)

(***************************************************************************)
(* Properties of the optimizer's bookkeeping, on SpecProg.                 *)
(***************************************************************************)
\* C18: an Optimizer just constructed has no N_best for any estimator,
\* whatever the earlier instances searched, and a run of an estimator (a
\* candidate's run, the LS run before a "-ls" search) changes no N_best
C18_FreshNBest ==
    [][/\ (opt'.instance # opt.instance)
            => \A e \in DOMAIN est_op' :
                 (IF opt'.loaded THEN opt'.own_est_op ELSE est_op')[e].N_best = NoneN
       /\ (opt.pc \in {"eval_run", "ls_run"})
            => est_op' = est_op /\ opt'.own_est_op = opt.own_est_op]_vars

\* the keys the run of a candidate of the estimator writes on the records
RunKeys(e) ==
    IF e = "ls"
    THEN {"x_ls_" \o SelfEstOp[e].impl, "y_ls_" \o SelfEstOp[e].impl}
    ELSE {PktsKey(SelfEstOp[e].impl)}

\* the step scores a candidate and goes on to the next one or returns
Scored == opt.pc = "eval_score" /\ opt'.pc \in {"eval_run", "eval_ret"}

\* C19: once a candidate is scored, no record holds a key its run wrote:
\* not the offset key and, for LS, not the rate key
C19_ScoredKeysErased ==
    [][Scored => \A j \in DOMAIN data' :
                   \A k \in RunKeys(opt.search) : ~Has(data'[j], k)]_vars

\* the first candidate of the search of an estimator suffixed "-ls" is about
\* to run
FirstLsCandidate ==
    /\ opt.pc = "eval_run"
    /\ EndsWithLs(opt.search)
    /\ opt.phase = "coarse" /\ opt.i = 0

\* C20: when the first candidate of an estimator suffixed "-ls" is about to
\* run, the N_best of "ls" is set and the records the LS run at that length
\* wrote to have the drift field
C20_LsRunGivesDrift ==
    FirstLsCandidate
      => /\ SelfEstOp["ls"].N_best # NoneN
         /\ \A j \in (SelfEstOp["ls"].N_best - 1) .. (NData(data) - 1) :
              Has(data[j], "drift")

(***************************************************************************)
(* Properties of the two passes of the search, on SpecOpt.                 *)
(***************************************************************************)
\* the step is the end of the coarse pass and the call of the fine one
EntersFine == opt.pc = "eval_ret" /\ opt.phase = "coarse" /\ opt'.phase = "fine"

\* C21: the bounds of the fine pass are the lowest-scoring and the
\* second-lowest-scoring of all the candidates the coarse pass scored
C21_FineBoundsAreTwoBest ==
    [][EntersFine
         => /\ \A c \in opt.scored : te[opt.N_best] <= c[2]
            /\ opt'.N_scnd_best # opt.N_best
            /\ \A c \in opt.scored :
                 c[1] # opt.N_best => te[opt'.N_scnd_best] <= c[2]]_vars

\* the smaller and the larger bound of the fine pass the step calls
FineLo == IF opt.N_best < opt'.N_scnd_best THEN opt.N_best ELSE opt'.N_scnd_best
FineHi == IF opt.N_best < opt'.N_scnd_best THEN opt'.N_scnd_best ELSE opt.N_best

RECURSIVE StallByEither(_, _, _, _, _)
StallByEither(i, d, N, cnt, bin_width) ==
    IF i > NData(d) - N THEN <<cnt, bin_width>>
    ELSE LET cnt_fw == ModeCnt(Quantize(Slice(T2MinusT1(d), i, i + N), bin_width))
             cnt_bw == ModeCnt(Quantize(Slice(T4MinusT3(d), i, i + N), bin_width))
             stall  == IF cnt_fw < CntThreshold \/ cnt_bw < CntThreshold
                       THEN cnt + 1 ELSE 0
         IN  IF stall > StallPatience
             THEN StallByEither(i + 1, d, N, 0, bin_width + BinStep)
             ELSE StallByEither(i + 1, d, N, stall, bin_width)

\* C24: window-by-window, the stall counter goes up by one on every window
\* where the winning bin of either stream has fewer than CntThreshold values
\* and back to 0 on every other window; above StallPatience the bin grows
\* by BinStep and the counter goes back to 0
C24_StallCountsEitherStream ==
    [][(/\ PktsCall({"mode"})
        /\ ~last'.vectorize /\ ~last'.drift_comp
        /\ last'.err = "none")
         => LET r == StallByEither(0, data, pkts.N, pkts.mode_stall_cnt,
                                   pkts.sample_mode_bin)
            IN  /\ pkts'.mode_stall_cnt = r[1]
                /\ pkts'.sample_mode_bin = r[2]]_vars

(***************************************************************************)
(* Properties of early stopping, on SpecStop.                              *)
(***************************************************************************)
\* the lowest of the scores 0 .. k
ScoreMinTo(mt, k) ==
    CHOOSE m \in {mt[j] : j \in 0 .. k} : \A j \in 0 .. k : m <= mt[j]

\* candidate k did not score strictly below every candidate before it
NonImproving(mt, k) == k > 0 /\ mt[k] >= ScoreMinTo(mt, k - 1)

\* the last of the candidates 0 .. i that scored below all those before it
LastImproving(mt, i) ==
    CHOOSE k \in 0 .. i :
      ~NonImproving(mt, k) /\ \A j \in (k + 1) .. i : NonImproving(mt, j)

\* the count of consecutive candidates, up to candidate i, that did not
Streak(mt, i) == i - LastImproving(mt, i)

\* the patience of the pass: 5 in the coarse one, 100 in the fine one
PassPatience == IF opt.phase = "coarse" THEN CoarsePatience ELSE FinePatience

\* the earliest of the candidates 0 .. i with the lowest score
EarliestBest(mt, i) ==
    CHOOSE k \in 0 .. i :
      mt[k] = ScoreMinTo(mt, i) /\ \A j \in 0 .. (k - 1) : mt[j] > mt[k]

\* C23: candidates are scored in the given order; with early stopping the
\* pass returns at the first candidate at which the count of consecutive
\* candidates that did not score strictly below the running minimum exceeds
\* the patience, and otherwise only after its last candidate; it returns the
\* earliest of the candidates with the lowest score among those scored
C23_StopsWhenPatienceExceeded ==
    [][Scored
         => LET i  == opt.i
                mt == opt'.max_te
                exceeded == opt.early_stopping /\ Streak(mt, i) > PassPatience
            IN  /\ mt[i] = te[opt.window_vec[i]]
                /\ \A j \in 0 .. (i - 1) : mt[j] = opt.max_te[j]
                /\ (opt'.pc = "eval_ret")
                      <=> (exceeded \/ i = Size(opt.window_vec) - 1)
                /\ opt'.pc = "eval_run" => opt'.i = i + 1
                /\ opt'.pc = "eval_ret"
                      => opt'.N_best = opt.window_vec[EarliestBest(mt, i)]]_vars

\* a coarse pass with early stopping over nine candidates that returns after
\* its seventh: the first one scored lowest and six did not improve on it
C23_Witness ==
    /\ opt.pc = "eval_ret" /\ opt.phase = "coarse" /\ opt.early_stopping
    /\ Size(opt.window_vec) = 9
    /\ opt.i = 6
    /\ Streak(opt.max_te, 6) = 6
    /\ opt.N_best = opt.window_vec[0]

(***************************************************************************)
(* Properties of the vectorized mode strategy, on Spec.                    *)
(***************************************************************************)
\* the tuning windows of a stream: the first NTuning rows of the first batch
TuningRows(v, N, batch_size) ==
    TopRows(Window(Slice(v, 0, (batch_size - 1) + N), N), NTuning)

\* the size of the batches of the call of the step
BatchSizeOfCall ==
    IF last'.batch THEN last'.batch_size ELSE NData(data) - (pkts.N - 1)

\* the call is a vectorized mode run, without drift compensation, of windows
\* no longer than the trace, that returns normally
TunedModeCall ==
    /\ PktsCall({"mode"})
    /\ last'.vectorize /\ ~last'.drift_comp
    /\ last'.err = "none"
    /\ pkts.N <= NData(data)

\* C25: after the tuning of the first batch, in each stream fewer than one
\* in ten of the tuning windows have a winning bin with less than
\* CntThreshold values
C25_TunedBelowTenPercent ==
    [][TunedModeCall
         => LET fw == TuningRows(T2MinusT1(data), pkts.N, BatchSizeOfCall)
                bw == TuningRows(T4MinusT3(data), pkts.N, BatchSizeOfCall)
            IN  /\ 10 * CntBelow(fw, pkts'.sample_mode_bin_fw) < Rows(fw)
                /\ 10 * CntBelow(bw, pkts'.sample_mode_bin_bw) < Rows(bw)]_vars

(***************************************************************************)
(* Properties of the recursive moving average against the window one, on   *)
(* Spec (fresh instances, with and without drift compensation); the        *)
(* formula reads the same on SpecStream, where the instance may also have  *)
(* been reset by set_window_len.                                           *)
(***************************************************************************)
\* the inputs of the running sum: the measurements less the drift
\* accumulated from the first record
AvgInputs(d, drift_comp) ==
    IF drift_comp THEN VSub(XObs(d), CumSum(DriftEst(d, TRUE))) ELSE XObs(d)

\* the sum of the N inputs that end at the record j
SumOfLast(v, j, N) == Sum(Slice(v, (j + 1) - N, j + 1))

\* the records after a window-by-window run of avg-normal on d
AvgNormalOf(d, N, drift_comp) ==
    WindowByWindow(PktSelectionInit(N), d, "avg-normal", drift_comp,
                   DriftEst(d, drift_comp)).data

\* C26: on an instance as the constructor or set_window_len leaves it, a
\* run of avg-recursive ends with the running sum equal to the sum of the
\* last N inputs, and its estimate on every record j >= N - 1 equals the
\* estimate of avg-normal on the window that ends at j, with and without
\* drift compensation
C26_RecursiveEqualsNormal ==
    [][(/\ PktsCall({"avg-recursive"})
        /\ last'.err = "none"
        /\ pkts = PktSelectionInit(pkts.N)
        /\ pkts.N <= NData(data))
         => /\ pkts'.movavg_accum
                 = SumOfLast(AvgInputs(data, last'.drift_comp),
                             NData(data) - 1, pkts.N)
            /\ \A j \in pkts.N - 1 .. NData(data) - 1 :
                 data'[j]["x_pkts_avg_recursive"]
                   = AvgNormalOf(data, pkts.N, last'.drift_comp)[j]["x_pkts_avg_normal"]]_vars

\* a drift-compensated run of avg-recursive, windows of two samples, on
\* three records: the last estimate is the one of avg-normal and is not the
\* plain mean of the last two measurements
C26_Witness ==
    /\ last.op = "pkts" /\ last.name = "avg-recursive" /\ last.N = 2
    /\ last.drift_comp /\ last.err = "none"
    /\ NData(data) = 3
    /\ data[2]["x_pkts_avg_recursive"]
         = AvgNormalOf(data, 2, TRUE)[2]["x_pkts_avg_normal"]
    /\ data[2]["x_pkts_avg_recursive"]
         # AvgNormalOf(data, 2, FALSE)[2]["x_pkts_avg_normal"]

(***************************************************************************)
(* Properties of set_window_len, on SpecStream.                            *)
(***************************************************************************)
\* the step is set_window_len(N)
ResetCall == last'.op = "set_window_len"

C27_CarriedOver ==
    /\ calls = 2
    /\ last.op = "pkts" /\ last.name = "ewma"
    /\ pkts.ewma_n > NData(data)

(***************************************************************************)
(* Termination of the bin-width tuning, on Spec.                           *)
(***************************************************************************)
\* C28: every vectorized run of the mode strategy returns or raises: the
\* tuning loop of the first batch ends, whatever N and the trace
C28_TuningTerminates ==
    [][(PktsCall({"mode"}) /\ last'.vectorize) => last'.err # "hang"]_vars

(***************************************************************************)
(* Properties of the search on traces without drift estimates, on SpecOpt. *)
(***************************************************************************)
\* the packet-selection estimators that take no drift from Ls
PlainSelectors == {"sample-median", "sample-min", "sample-max", "sample-mode"}

\* every record has the true offset and none has a drift estimate
TruthWithoutDrift ==
    \A i \in DOMAIN data : Has(data[i], "x") /\ ~Has(data[i], "drift")

\* C29: on a trace with the true offset and no drift estimate, the search of
\* a packet-selection estimator that is not an "-ls" one does not fail for
\* want of drift estimates
C29_SearchNeedsNoDrift ==
    (opt.search \in PlainSelectors /\ TruthWithoutDrift)
      => ~(opt.pc = "raised" /\ opt.err = "AssertionError")

(***************************************************************************)
(* SpecSerial: Serial.run with the SIGINT handler Serial.catch.  Python    *)
(* runs a signal handler in the main thread, between two of its            *)
(* instructions: ser.hs is the stack of the handlers that interrupted      *)
(* run() (a handler can be interrupted in turn), and run() advances only   *)
(* while it is empty.  The capture file is the sequence of the pieces      *)
(* appended to it.  save() writes through a buffered file object that the  *)
(* end of its with statement flushes; end_json_file and start_json_file    *)
(* open, write and close at once.  exit() raises SystemExit in the         *)
(* handler, which unwinds the interrupted frames, the with statement of    *)
(* save() included.                                                        *)
(***************************************************************************)
MaxSamples == 2     \* the largest n_samples
MaxSignals == 2     \* the SIGINTs delivered at most

Header     == "{\"metadata\": ..., \"data\":["
Terminator == "]}"
Separator  == ",\n"
Record     == "{record}"
Partial    == "{rec"

\* start_json_file and end_json_file: what they append
StartJsonFile(file) == Append(file, Header)
EndJsonFile(file)   == Append(file, Terminator)

SerStep(s) ==
    /\ ser' = s
    /\ UNCHANGED <<data, pkts, last, calls, est_op, opt, te, cfg_file>>

\* run() moves only while no handler is running
Running(pc) == ser.pc = pc /\ ser.hs = <<>>

InitSerial ==
    /\ \E n \in 1 .. MaxSamples : ser = [Ser0 EXCEPT !.n_samples = n]
    /\ data = OptTrace(2, TRUE, TRUE, FALSE)
    /\ pkts = PktSelectionInit(1)
    /\ last = NoCall
    /\ calls = 0
    /\ est_op = EstOp0
    /\ opt = Opt0
    /\ te = [N \in 1 .. MaxTeN |-> 0]
    /\ cfg_file = NoFile

\* run(): signal.signal(SIGINT, self.catch) is done; start_json_file
RunStart ==
    /\ Running("start")
    /\ SerStep([ser EXCEPT !.file = StartJsonFile(@), !.pc = "loop"])

\* run(): the test of the while loop
RunLoopTest ==
    /\ Running("loop")
    /\ SerStep([ser EXCEPT !.pc = IF /\ ser.en_capture
                                     /\ (ser.idx < ser.n_samples \/ ser.n_samples = 0)
                                  THEN "read" ELSE "end"])

\* run(): one line of the RRU: a set of timestamps, another line, a device
\* that became unresponsive (break), a serial buffer getting full (assert)
RunRead(line) ==
    /\ Running("read")
    /\ SerStep([ser EXCEPT !.pc = CASE line = "Timestamps"   -> "save"
                                   [] line = "other"        -> "loop"
                                   [] line = "unresponsive" -> "end"
                                   [] OTHER                 -> "raised"])

\* save(): open the file, write the separator after the first record
SaveSeparator ==
    /\ Running("save")
    /\ SerStep([ser EXCEPT !.buf = IF ser.idx > 0 THEN <<Separator>> ELSE <<>>,
                           !.pc  = "dump"])

\* save(): json.dump writes the record piece by piece: the first pieces
SaveDumpFirst ==
    /\ Running("dump")
    /\ SerStep([ser EXCEPT !.buf = Append(@, Partial), !.pc = "dump_rest"])

\* save(): json.dump, the last pieces
SaveDumpRest ==
    /\ Running("dump_rest")
    /\ SerStep([ser EXCEPT !.buf = Append(SubSeq(@, 1, Len(@) - 1), Record),
                           !.pc  = "close"])

\* save(): the with statement closes the file, which flushes the buffer
SaveClose ==
    /\ Running("close")
    /\ SerStep([ser EXCEPT !.file = @ \o ser.buf, !.buf = <<>>, !.pc = "inc"])

\* run(): self.idx += 1
RunInc ==
    /\ Running("inc")
    /\ SerStep([ser EXCEPT !.idx = @ + 1, !.pc = "loop"])

\* run(): end_json_file after the loop
RunEnd ==
    /\ Running("end")
    /\ SerStep([ser EXCEPT !.file = EndJsonFile(@), !.pc = "move"])

\* run(): move(), the answer given; run() returns
RunMove ==
    /\ Running("move")
    /\ SerStep([ser EXCEPT !.pc = "returned"])

\* a SIGINT while run() or a handler is running: catch() starts and clears
\* en_capture
Sigint ==
    /\ ser.pc \notin {"returned", "raised", "exited"}
    /\ ser.signals < MaxSignals
    /\ SerStep([ser EXCEPT !.hs = Append(@, "end"), !.en_capture = FALSE,
                           !.signals = @ + 1])

\* the innermost handler is at pc
Catching(pc) == ser.hs # <<>> /\ ser.hs[Len(ser.hs)] = pc

\* catch(): end_json_file
CatchEnd ==
    /\ Catching("end")
    /\ SerStep([ser EXCEPT !.file = EndJsonFile(@), !.hs[Len(ser.hs)] = "move"])

\* catch(): move(), the answer given
CatchMove ==
    /\ Catching("move")
    /\ SerStep([ser EXCEPT !.hs[Len(ser.hs)] = "exit"])

\* catch(): exit(); the frames unwind, an open file of save() is flushed
CatchExit ==
    /\ Catching("exit")
    /\ SerStep([ser EXCEPT !.file = @ \o ser.buf, !.buf = <<>>, !.hs = <<>>,
                           !.pc = "exited"])

NextSerial ==
    \/ RunStart
    \/ RunLoopTest
    \/ \E line \in {"Timestamps", "other", "unresponsive", "overrun"} : RunRead(line)
    \/ SaveSeparator
    \/ SaveDumpFirst
    \/ SaveDumpRest
    \/ SaveClose
    \/ RunInc
    \/ RunEnd
    \/ RunMove
    \/ Sigint
    \/ CatchEnd
    \/ CatchMove
    \/ CatchExit

SpecSerial == InitSerial /\ [][NextSerial]_vars

(***************************************************************************)
(* Properties of the capture file, on SpecSerial.                          *)
(***************************************************************************)
\* how many terminators the file has
Terminators == Cardinality({i \in DOMAIN ser.file : ser.file[i] = Terminator})

\* the capture is over: run() returned, or catch() left the program
CaptureOver == ser.pc \in {"returned", "exited"}

\* C30: whenever the SIGINTs arrive, the file never has more than one
\* terminator, nothing is appended after it, and a capture that is over
\* has it
C30_TerminatorOnceAtEnd ==
    /\ Terminators <= 1
    /\ Terminators = 1 => ser.file[Len(ser.file)] = Terminator
    /\ CaptureOver => Terminators = 1

====
